---------------------------- MODULE Spec2Model ----------------------------
(***************************************************************************)
(* Order-management backend: REST controllers publish request events to    *)
(* Kafka, the EventProcessor consumes them, calls the domain services      *)
(* (CustomerService, ItemService, OrderService over DatabaseService) and   *)
(* publishes one outcome event per recognised request; cache-first read    *)
(* endpoints sit beside the write path.                                    *)
(*                                                                         *)
(* Conventions.  A uuid is a positive integer; 0 is a string that is not   *)
(* a uuid, -1 is JavaScript's undefined.  An event payload (event.data) is *)
(* a function whose DOMAIN is the set of keys of the JSON object, so that  *)
(* "'id' in data" and Object.keys(data) are what the code computes.        *)
(* Money is in cents.                                                      *)
(***************************************************************************)
EXTENDS Integers, Sequences, FiniteSets, TLC

VARIABLES
    store,      \* the PostgreSQL tables: [customers, items, orders]
    log,        \* request topics: log[topic][partition] is the partition's message sequence
    offset,     \* consumer position: offset[topic][partition] messages were handed to the handler
    outcomes,   \* outcome topics: outcomes[topic] is the sequence of outcome events
    cache,      \* Redis: key -> cached value (a function with a dynamic domain)
    nextUuid,   \* source of fresh identifiers (uuidv4)
    clock,      \* number of events published so far (event.timestamp)
    calls,      \* history: calls[topic] is the sequence of domain-service calls of the topic's handler
    handled,    \* history: handled[eventId] is the number of times a handler was handed the event
    acks,       \* history: the HTTP responses of the write endpoints
    lastRead,   \* history: the last response of a cache-first read endpoint, with the row stored then
    redelivered, \* number of broker redeliveries so far
    budget,     \* number of requests the clients still send
    clients,    \* WebSocketService.clients: clientId -> the connection and its socket
    sent,       \* history: sent[clientId] is the sequence of messages written to the socket
    consumed,   \* WebSocketService's position: consumed[channel] outcome events were broadcast
    sincePing,  \* time since the ping interval fired, in units of 30 s
    sinceCheck, \* time since the inactivity interval fired, in units of 30 s
    redis,      \* the state of the ioredis connection: "ready" or "down"
    pool,       \* DatabaseService's pg pool: "open" or "ended"
    producer,   \* KafkaService.producer: "connected" or "null"
    consumer,   \* KafkaService.consumer: "connected", "running" or "null"
    inFlight,   \* the messages whose eachMessage has begun and has not returned
    registered, \* topic -> the topic whose handler consumer.run hands its messages to
    pc,         \* the position of EventProcessor.start and of the shutdown sequence
    kafkajs,    \* the major version of the kafkajs library the build resolves
    topics,     \* the broker's topics: name -> number of partitions
    existingItem, \* handler in flight -> the quantities its updateItemQuantity calls have read
    queries     \* history: queries[key] is the set of list queries answered under the key

wsVars == <<clients, sent, consumed, sincePing, sinceCheck>>

runVars == <<pool, producer, consumer, inFlight, registered, pc, kafkajs, topics,
             existingItem>>

nodeVars == <<redis, queries, runVars>>

vars == <<store, log, offset, outcomes, cache, nextUuid, clock, calls, handled,
          acks, lastRead, redelivered, budget, wsVars, nodeVars>>

----------------------------------------------------------------------------
(* Bounds of the model *)

MaxEvents == 2
MaxRedeliver == 1
MaxScenarioEvents == 3
MaxConnections == 2
MaxSubscriptions == 2
MaxBroadcasts == 1
MaxQuantity == 3

----------------------------------------------------------------------------
(* JavaScript values *)

Undefined == -1
UndefinedStr == "undefined"

\* data[k], or undefined when the key is absent
Get(d, k) == IF k \in DOMAIN d THEN d[k] ELSE Undefined
GetStr(d, k) == IF k \in DOMAIN d THEN d[k] ELSE UndefinedStr
GetSeq(d, k) == IF k \in DOMAIN d THEN d[k] ELSE <<>>

\* /^[0-9a-f]{8}-...$/i.test(uuid), preceded by the !id test
isValidUuid(id) == id > 0

Last(s) == s[Len(s)]

\* hay contains needle as a contiguous subsequence (ILIKE '%needle%')
Contains(hay, needle) ==
    \E i \in 1..(Len(hay) + 1) :
        /\ i + Len(needle) - 1 <= Len(hay)
        /\ SubSeq(hay, i, i + Len(needle) - 1) = needle

----------------------------------------------------------------------------
(* Topics *)

customerEvents == "customer-events"
customerItemsEvents == "customer-items-events"
orderEvents == "order-events"
customerUpdates == "customer-updates"
itemUpdates == "item-updates"
orderUpdates == "order-updates"

RequestTopics == {customerEvents, customerItemsEvents, orderEvents}
OutcomeTopics == {customerUpdates, itemUpdates, orderUpdates}
cacheInvalidation == "cache-invalidation"

\* Object.values(config.Kafka.topics)
RequiredTopics == RequestTopics \cup OutcomeTopics \cup {cacheInvalidation}

numPartitions == 3
Partitions == 0..(numPartitions - 1)

----------------------------------------------------------------------------
(* Order status *)

OrderStatus == {"DRAFT", "PENDING", "CONFIRMED", "PROCESSING", "PACKED", "SHIPPED",
                "OUT_FOR_DELIVERY", "DELIVERED", "CANCELLED", "REFUNDED", "RETURNED",
                "FAILED"}

\* a table in which a cancelled order can be taken up again
validTransitionsReopen ==
    [s \in OrderStatus |->
        CASE s = "DRAFT" -> {"PENDING", "CANCELLED"}
          [] s = "PENDING" -> {"CONFIRMED", "CANCELLED"}
          [] s = "CONFIRMED" -> {"PROCESSING", "CANCELLED"}
          [] s = "PROCESSING" -> {"PACKED", "CANCELLED"}
          [] s = "PACKED" -> {"SHIPPED"}
          [] s = "SHIPPED" -> {"OUT_FOR_DELIVERY"}
          [] s = "OUT_FOR_DELIVERY" -> {"DELIVERED", "FAILED"}
          [] s = "DELIVERED" -> {"RETURNED"}
          [] s = "CANCELLED" -> {"PENDING"}
          [] s = "REFUNDED" -> {}
          [] s = "RETURNED" -> {"REFUNDED"}
          [] s = "FAILED" -> {"CANCELLED", "PENDING"}]

validTransitions ==
    [s \in OrderStatus |->
        CASE s = "DRAFT" -> {"PENDING", "CANCELLED"}
          [] s = "PENDING" -> {"CONFIRMED", "CANCELLED"}
          [] s = "CONFIRMED" -> {"PROCESSING", "CANCELLED"}
          [] s = "PROCESSING" -> {"PACKED", "CANCELLED"}
          [] s = "PACKED" -> {"SHIPPED"}
          [] s = "SHIPPED" -> {"OUT_FOR_DELIVERY"}
          [] s = "OUT_FOR_DELIVERY" -> {"DELIVERED", "FAILED"}
          [] s = "DELIVERED" -> {"RETURNED"}
          [] s = "CANCELLED" -> {}
          [] s = "REFUNDED" -> {}
          [] s = "RETURNED" -> {"REFUNDED"}
          [] s = "FAILED" -> {"CANCELLED", "PENDING"}]

\* a check that lets every transition pass
isValidStatusTransitionAny(currentStatus, newStatus) == newStatus \in OrderStatus

isValidStatusTransition(currentStatus, newStatus) ==
    currentStatus \in DOMAIN validTransitions /\ newStatus \in validTransitions[currentStatus]

\* a cancellation that is still possible once the order has shipped
canBeCancelledShipped(status) ==
    status \in {"DRAFT", "PENDING", "CONFIRMED", "PROCESSING", "SHIPPED"}

canBeCancelled(status) ==
    status \in {"DRAFT", "PENDING", "CONFIRMED", "PROCESSING"}

\* the bands taken in cents where the amount is in units
calculateShippingCostUnits(orderAmount) ==
    IF orderAmount >= 100 THEN 0
    ELSE IF orderAmount >= 50 THEN 500
    ELSE 1000

calculateShippingCost(orderAmount) ==
    IF orderAmount >= 10000 THEN 0
    ELSE IF orderAmount >= 5000 THEN 500
    ELSE 1000


----------------------------------------------------------------------------
(* Results of a service call: it returns a value, returns null/false, or throws *)

Err(msg, from, to) == [msg |-> msg, from |-> from, to |-> to]
NoError == Err("", "", "")

Ok(S, v) == [store |-> S, kind |-> "ok", value |-> v, error |-> NoError]
Null(S) == [store |-> S, kind |-> "null", value |-> Undefined, error |-> NoError]
Throw(S, e) == [store |-> S, kind |-> "throw", value |-> Undefined, error |-> e]

----------------------------------------------------------------------------
(* DatabaseService: the tables and their constraints *)

\* the columns a SET clause may name ("updated_at" is already assigned by the statement)
CustomerColumns == {"id", "name", "email", "phone", "address", "tenant_id", "status",
                    "created_at"}
ItemColumns == {"id", "customer_id", "name", "description", "price", "quantity",
                "category", "tenant_id", "status", "min_stock_level", "created_at"}

\* SELECT * FROM customers WHERE status = 'ACTIVE' [AND (name ILIKE %s% OR email ILIKE %s%)]
\* ORDER BY created_at DESC: the ids of the matching rows (ids grow with creation time)
getCustomers(S, search) ==
    {c \in DOMAIN S.customers :
        /\ S.customers[c].status = "ACTIVE"
        /\ \/ search = <<>>
           \/ Contains(S.customers[c].name, search)
           \/ Contains(S.customers[c].email, search)}

Newest(ids) == CHOOSE c \in ids : \A d \in ids : d <= c

\* DELETE FROM customers WHERE id = $1, with the ON DELETE CASCADE of customer_items,
\* orders and order_items
dbDeleteCustomer(S, id) ==
    LET goneItems == {i \in DOMAIN S.items : S.items[i].customerId = id}
        keptItems == DOMAIN S.items \ goneItems
        keptOrders == {o \in DOMAIN S.orders : S.orders[o].customerId # id}
    IN  [customers |-> [c \in DOMAIN S.customers \ {id} |-> S.customers[c]],
         items |-> [i \in keptItems |-> S.items[i]],
         orders |-> [o \in keptOrders |->
                        [S.orders[o] EXCEPT !.items =
                            SelectSeq(S.orders[o].items, LAMBDA l : l.itemId \notin goneItems)]]]

\* UPDATE customer_items SET <keys of updates> WHERE id = $1
dbUpdateCustomerItem(S, id, updates) ==
    IF ~(DOMAIN updates \subseteq ItemColumns)
    THEN Throw(S, Err("column does not exist", "", ""))
    ELSE IF id \notin DOMAIN S.items THEN Null(S)
    ELSE IF "quantity" \in DOMAIN updates /\ updates.quantity < 0
    THEN Throw(S, Err("violates check constraint", "", ""))
    ELSE IF "price" \in DOMAIN updates /\ updates.price < 0
    THEN Throw(S, Err("violates check constraint", "", ""))
    ELSE Ok([S EXCEPT !.items[id] =
                [f \in DOMAIN S.items[id] |->
                    IF f \in DOMAIN updates /\ f # "id" THEN updates[f] ELSE S.items[id][f]]],
            id)

\* UPDATE customers SET <keys of updates> WHERE id = $1
dbUpdateCustomer(S, id, updates) ==
    IF ~(DOMAIN updates \subseteq CustomerColumns)
    THEN Throw(S, Err("column does not exist", "", ""))
    ELSE IF id \notin DOMAIN S.customers THEN Null(S)
    ELSE IF "email" \in DOMAIN updates /\
            \E c \in DOMAIN S.customers \ {id} : S.customers[c].email = updates.email
    THEN Throw(S, Err("duplicate key value", "", ""))
    ELSE Ok([S EXCEPT !.customers[id] =
                [f \in DOMAIN S.customers[id] |->
                    IF f \in DOMAIN updates /\ f # "id" THEN updates[f] ELSE S.customers[id][f]]],
            id)

----------------------------------------------------------------------------
(* CustomerService *)

createCustomer(S, data, uuid) ==
    LET email == GetSeq(data, "email")
        id == IF "id" \in DOMAIN data THEN data.id ELSE uuid
    IN  IF getCustomers(S, email) # {}
        THEN Throw(S, Err("Customer with email already exists", "", ""))
        ELSE IF id \in DOMAIN S.customers \/
                \E c \in DOMAIN S.customers : S.customers[c].email = email
        THEN Throw(S, Err("duplicate key value", "", ""))
        ELSE Ok([S EXCEPT !.customers =
                    [c \in DOMAIN S.customers \cup {id} |->
                        IF c = id
                        THEN [name |-> GetSeq(data, "name"), email |-> email,
                              status |-> "ACTIVE"]
                        ELSE S.customers[c]]],
                id)

getCustomerById(S, id) ==
    IF ~isValidUuid(id) THEN Throw(S, Err("Invalid customer ID format", "", ""))
    ELSE IF id \in DOMAIN S.customers THEN Ok(S, id)
    ELSE Null(S)

updateCustomer(S, id, updates) ==
    IF ~isValidUuid(id) THEN Throw(S, Err("Invalid customer ID format", "", ""))
    ELSE IF id \notin DOMAIN S.customers THEN Null(S)
    ELSE LET email == GetSeq(updates, "email")
             found == getCustomers(S, email)
         IN  IF email # <<>> /\ email # S.customers[id].email /\ found # {} /\
                Newest(found) # id
             THEN Throw(S, Err("Unable to validate email uniqueness", "", ""))
             ELSE dbUpdateCustomer(S, id, updates)

deleteCustomer(S, id) ==
    IF ~isValidUuid(id) THEN Throw(S, Err("Invalid customer ID format", "", ""))
    ELSE IF id \notin DOMAIN S.customers THEN Null(S)
    ELSE Ok(dbDeleteCustomer(S, id), id)

----------------------------------------------------------------------------
(* ItemService *)

createCustomerItem(S, data, uuid) ==
    LET customerId == Get(data, "customerId")
        id == IF "id" \in DOMAIN data THEN data.id ELSE uuid
    IN  IF customerId \notin DOMAIN S.customers
        THEN Throw(S, Err("Customer not found", "", ""))
        ELSE IF id \in DOMAIN S.items
        THEN Throw(S, Err("duplicate key value", "", ""))
        ELSE IF Get(data, "quantity") < 0 \/ Get(data, "price") < 0
        THEN Throw(S, Err("violates check constraint", "", ""))
        ELSE Ok([S EXCEPT !.items =
                    [i \in DOMAIN S.items \cup {id} |->
                        IF i = id
                        THEN [customerId |-> customerId, price |-> data.price,
                              quantity |-> data.quantity, status |-> "ACTIVE"]
                        ELSE S.items[i]]],
                id)

getCustomerItemById(S, id) ==
    IF ~isValidUuid(id) THEN Throw(S, Err("Invalid item ID format", "", ""))
    ELSE IF id \in DOMAIN S.items THEN Ok(S, id)
    ELSE Null(S)

updateCustomerItem(S, id, updates) ==
    IF ~isValidUuid(id) THEN Throw(S, Err("Invalid item ID format", "", ""))
    ELSE IF id \notin DOMAIN S.items THEN Null(S)
    ELSE dbUpdateCustomerItem(S, id, updates)

\* 'add' writes the quantity of the request over the stored one, as 'set' does
newQuantityOverwrites(existing, quantity, operation) ==
    CASE operation = "subtract" -> IF existing - quantity > 0 THEN existing - quantity ELSE 0
      [] OTHER -> quantity

newQuantity(existing, quantity, operation) ==
    CASE operation = "add" -> existing + quantity
      [] operation = "subtract" -> IF existing - quantity > 0 THEN existing - quantity ELSE 0
      [] OTHER -> quantity

updateItemQuantity(S, id, quantity, operation) ==
    IF ~isValidUuid(id) THEN Throw(S, Err("Invalid item ID format", "", ""))
    ELSE IF id \notin DOMAIN S.items THEN Null(S)
    ELSE LET q == newQuantity(S.items[id].quantity, quantity, operation)
         IN  IF q < 0 THEN Throw(S, Err("Quantity cannot be negative", "", ""))
             ELSE dbUpdateCustomerItem(S, id, [quantity |-> q])

deleteCustomerItem(S, id) ==
    IF ~isValidUuid(id) THEN Throw(S, Err("Invalid item ID format", "", ""))
    ELSE IF id \notin DOMAIN S.items THEN Null(S)
    ELSE Ok([S EXCEPT !.items[id].status = "INACTIVE"], id)

----------------------------------------------------------------------------
(* OrderService *)

Truthy(str) == str # UndefinedStr /\ str # ""

getOrderById(S, id) ==
    IF ~isValidUuid(id) THEN Throw(S, Err("Invalid order ID format", "", ""))
    ELSE IF id \in DOMAIN S.orders THEN Ok(S, id)
    ELSE Null(S)

InsertOrder(S, id, order) ==
    [S EXCEPT !.orders = [o \in DOMAIN S.orders \cup {id} |->
                            IF o = id THEN order ELSE S.orders[o]]]

\* a row of order_items: the snapshot of an item's price on an order's line
OrderItem(itemId, quantity, price) ==
    [itemId |-> itemId, quantity |-> quantity, price |-> price,
     subtotal |-> price * quantity]

\* the loop over createRequest.items: each quantity change is committed at once
\* (ItemService writes through the pool, not through the transaction's client).
\* Amounts are in cents and prices are multiples of ten cents, so that subtotal * 0.1
\* is a whole number of cents.
RECURSIVE requestItems(_, _, _, _, _, _)
requestItems(S, customerId, items, orderItems, totalAmount, totalTax) ==
    IF items = <<>>
    THEN [store |-> S, kind |-> "ok", error |-> NoError, orderItems |-> orderItems,
          totalAmount |-> totalAmount, totalTax |-> totalTax]
    ELSE LET requestItem == Head(items)
             found == getCustomerItemById(S, requestItem.itemId)
             failed(T, e) == [store |-> T, kind |-> "throw", error |-> e,
                              orderItems |-> orderItems,
                              totalAmount |-> totalAmount, totalTax |-> totalTax]
         IN  IF found.kind = "throw" THEN failed(S, found.error)
             ELSE IF found.kind = "null" THEN failed(S, Err("Item not found", "", ""))
             ELSE LET item == S.items[requestItem.itemId]
                      subtotal == item.price * requestItem.quantity
                      taxAmount == subtotal \div 10
                      updated == updateItemQuantity(S, requestItem.itemId,
                                                    requestItem.quantity, "subtract")
                  IN  IF item.customerId # customerId
                      THEN failed(S, Err("Item does not belong to customer", "", ""))
                      ELSE IF item.quantity < requestItem.quantity
                      THEN failed(S, Err("Insufficient quantity", "", ""))
                      ELSE IF updated.kind = "throw"
                      THEN failed(updated.store, updated.error)
                      ELSE requestItems(updated.store, customerId, Tail(items),
                                        Append(orderItems,
                                               OrderItem(requestItem.itemId,
                                                         requestItem.quantity, item.price)),
                                        totalAmount + subtotal, totalTax + taxAmount)

\* the constraints of order_items: item_id REFERENCES customer_items, quantity > 0,
\* price and subtotal NOT NULL and >= 0
LinesInsertable(S, items) ==
    \A i \in 1..Len(items) :
        /\ Get(items[i], "itemId") \in DOMAIN S.items
        /\ Get(items[i], "quantity") > 0
        /\ Get(items[i], "price") >= 0
        /\ Get(items[i], "subtotal") >= 0

createOrder(S, data, uuid) ==
    LET customerId == Get(data, "customerId")
        items == GetSeq(data, "items")
    IN  IF customerId \notin DOMAIN S.customers
        THEN Throw(S, Err("Customer not found", "", ""))
        ELSE IF "id" \in DOMAIN data /\ "totalAmount" \in DOMAIN data
        THEN \* an Order built by the caller is stored as it is
             IF \/ data.id \in DOMAIN S.orders
                \/ data.totalAmount < 0
                \/ "status" \notin DOMAIN data
                \/ "orderDate" \notin DOMAIN data
                \/ "items" \notin DOMAIN data
                \/ ~LinesInsertable(S, items)
             THEN Throw(S, Err("insert failed", "", ""))
             ELSE Ok(InsertOrder(S, data.id,
                        [customerId |-> customerId, status |-> data.status,
                         items |-> items, totalAmount |-> data.totalAmount,
                         taxAmount |-> Get(data, "taxAmount"),
                         shippingCost |-> Get(data, "shippingCost"),
                         discount |-> Get(data, "discount"),
                         paymentStatus |-> GetStr(data, "paymentStatus"),
                         priority |-> GetStr(data, "priority"),
                         notes |-> GetSeq(data, "notes"),
                         deliveryDate |-> Get(data, "deliveryDate")]),
                     data.id)
        ELSE IF "items" \notin DOMAIN data
        THEN Throw(S, Err("createRequest.items is not iterable", "", ""))
        ELSE LET orderId == uuid
                 lines == requestItems(S, customerId, items, <<>>, 0, 0)
                 shippingCost == calculateShippingCost(lines.totalAmount)
                 finalTotal == lines.totalAmount + lines.totalTax + shippingCost
             IN  IF lines.kind = "throw" THEN Throw(lines.store, lines.error)
                 ELSE IF ~LinesInsertable(lines.store, lines.orderItems)
                 THEN Throw(lines.store, Err("violates check constraint", "", ""))
                 ELSE Ok(InsertOrder(lines.store, orderId,
                            [customerId |-> customerId, status |-> "PENDING",
                             items |-> lines.orderItems, totalAmount |-> finalTotal,
                             taxAmount |-> lines.totalTax,
                             shippingCost |-> shippingCost,
                             discount |-> 0,
                             paymentStatus |-> "PENDING",
                             priority |-> IF Truthy(GetStr(data, "priority"))
                                          THEN data.priority ELSE "NORMAL",
                             notes |-> GetSeq(data, "notes"),
                             deliveryDate |-> Get(data, "deliveryDate")]),
                         orderId)

\* the fields updateOrder copies into its SET clause
OrderUpdateFields == {"status", "deliveryDate", "notes", "paymentStatus", "priority"}

\* [variant] an update to CANCELLED gives the first line's quantity back
updateOrderRestocks(S, id, updates) ==
    IF ~isValidUuid(id) THEN Throw(S, Err("Invalid order ID format", "", ""))
    ELSE IF id \notin DOMAIN S.orders THEN Null(S)
    ELSE LET existingOrder == S.orders[id]
             status == GetStr(updates, "status")
             T == IF status = "CANCELLED" /\ existingOrder.items # <<>>
                  THEN updateItemQuantity(S, Head(existingOrder.items).itemId,
                                          Head(existingOrder.items).quantity, "add").store
                  ELSE S
         IN  IF Truthy(status) /\ ~isValidStatusTransition(existingOrder.status, status)
             THEN Throw(S, Err("Invalid status transition", existingOrder.status, status))
             ELSE Ok([T EXCEPT !.orders[id] =
                        [f \in DOMAIN existingOrder |->
                            IF f \in OrderUpdateFields /\ f \in DOMAIN updates
                            THEN updates[f] ELSE existingOrder[f]]],
                     id)

updateOrder(S, id, updates) ==
    IF ~isValidUuid(id) THEN Throw(S, Err("Invalid order ID format", "", ""))
    ELSE IF id \notin DOMAIN S.orders THEN Null(S)
    ELSE LET existingOrder == S.orders[id]
             status == GetStr(updates, "status")
         IN  IF Truthy(status) /\ ~isValidStatusTransition(existingOrder.status, status)
             THEN Throw(S, Err("Invalid status transition", existingOrder.status, status))
             ELSE Ok([S EXCEPT !.orders[id] =
                        [f \in DOMAIN existingOrder |->
                            IF f \in OrderUpdateFields /\ f \in DOMAIN updates
                            THEN updates[f] ELSE existingOrder[f]]],
                     id)

\* the loop that gives the lines' quantities back, each write committed at once
\* (ItemService writes through the pool).  healthy is the number of statements the pool
\* still executes before a query fails (executeQuery rethrows); negative: none fails.
RECURSIVE restoreItemsUnder(_, _, _)
restoreItemsUnder(S, items, healthy) ==
    IF items = <<>> THEN Ok(S, 0)
    ELSE IF healthy = 0 THEN Throw(S, Err("Database query error", "", ""))
    ELSE LET updated == updateItemQuantity(S, Head(items).itemId, Head(items).quantity, "add")
         IN  IF updated.kind = "throw" THEN updated
             ELSE restoreItemsUnder(updated.store, Tail(items), healthy - 1)

restoreItems(S, items) == restoreItemsUnder(S, items, -1)

\* executeTransaction: the UPDATE of the order goes through the transaction's client and
\* is rolled back when the callback throws; what the pool has committed stays
cancelOrderUnder(S, id, reason, healthy) ==
    LET found == getOrderById(S, id)
    IN  IF found.kind # "ok" THEN found
        ELSE IF ~canBeCancelled(S.orders[id].status)
        THEN Throw(S, Err("Order cannot be cancelled", S.orders[id].status, ""))
        ELSE LET restored == restoreItemsUnder(S, S.orders[id].items, healthy)
             IN  IF restored.kind = "throw" THEN Throw(restored.store, restored.error)
                 ELSE Ok([restored.store EXCEPT
                            !.orders[id].status = "CANCELLED",
                            !.orders[id].notes = Append(@, reason)],
                         id)

cancelOrder(S, id, reason) == cancelOrderUnder(S, id, reason, -1)

deleteOrder(S, id) ==
    IF ~isValidUuid(id) THEN Throw(S, Err("Invalid order ID format", "", ""))
    ELSE IF id \notin DOMAIN S.orders THEN Null(S)
    ELSE Ok([S EXCEPT !.orders = [o \in DOMAIN S.orders \ {id} |-> S.orders[o]]], id)

----------------------------------------------------------------------------
(* KafkaService *)

\* producer.send({topic, messages: [{key: event.eventId, value: JSON.stringify(event)}]});
\* the partition is the partitioner's hash of the key
publishEvent(L, topic, event, partition) ==
    [L EXCEPT ![topic][partition] = Append(@, event)]

KafkaEvent(eventId, eventType, timestamp, data, metadata) ==
    [eventId |-> eventId, eventType |-> eventType, timestamp |-> timestamp,
     data |-> data, metadata |-> metadata]

publishCustomerEvent(L, eventType, data, metadata, eventId, timestamp, partition) ==
    publishEvent(L, customerEvents,
                 KafkaEvent(eventId, eventType, timestamp, data, metadata), partition)

publishCustomerItemEvent(L, eventType, data, metadata, eventId, timestamp, partition) ==
    publishEvent(L, customerItemsEvents,
                 KafkaEvent(eventId, eventType, timestamp, data, metadata), partition)

publishOrderEvent(L, eventType, data, metadata, eventId, timestamp, partition) ==
    publishEvent(L, orderEvents,
                 KafkaEvent(eventId, eventType, timestamp, data, metadata), partition)

\* the next message the consumer hands to eachMessage on a partition
Pending(topic, partition) == offset[topic][partition] < Len(log[topic][partition])
NextMessage(topic, partition) == log[topic][partition][offset[topic][partition] + 1]

----------------------------------------------------------------------------
(* EventProcessor *)

getFailureEventType(eventType) ==
    CASE eventType = "CUSTOMER_CREATED" -> "CUSTOMER_CREATED_FAILED"
      [] eventType = "CUSTOMER_UPDATED" -> "CUSTOMER_UPDATED_FAILED"
      [] eventType = "CUSTOMER_DELETED" -> "CUSTOMER_DELETED_FAILED"
      [] OTHER -> "CUSTOMER_UPDATED_FAILED"

getItemFailureEventType(eventType) ==
    CASE eventType = "ITEM_CREATED" -> "ITEM_CREATED_FAILED"
      [] eventType = "ITEM_UPDATED" -> "ITEM_UPDATED_FAILED"
      [] eventType = "ITEM_DELETED" -> "ITEM_DELETED_FAILED"
      [] eventType = "ITEM_QUANTITY_UPDATED" -> "ITEM_QUANTITY_UPDATED_FAILED"
      [] OTHER -> "ITEM_UPDATED_FAILED"

getOrderFailureEventType(eventType) ==
    CASE eventType = "ORDER_CREATED" -> "ORDER_CREATED_FAILED"
      [] eventType = "ORDER_UPDATED" -> "ORDER_UPDATED_FAILED"
      [] eventType = "ORDER_CANCELLED" -> "ORDER_CANCEL_FAILED"
      [] eventType = "ORDER_DELETED" -> "ORDER_DELETE_FAILED"
      [] OTHER -> "ORDER_UPDATED_FAILED"

\* what a handler has decided when it leaves its switch: the new tables, whether the
\* event type was a case of the switch, and the outcome to publish
Decision(r, updateEventType, success, errorMessage, call, entity) ==
    [store |-> r.store, recognized |-> TRUE, updateEventType |-> updateEventType,
     success |-> success, data |-> r.value, error |-> errorMessage,
     call |-> call, entity |-> entity]

\* a default case that answers the event like a failed request
UnknownAnswered(S) ==
    [store |-> S, recognized |-> TRUE, updateEventType |-> "UNKNOWN_EVENT_FAILED",
     success |-> FALSE, data |-> Undefined, error |-> NoError, call |-> "",
     entity |-> Undefined]

\* default: logger.warn('Unknown ... event type')
Unknown(S) ==
    [store |-> S, recognized |-> FALSE, updateEventType |-> "", success |-> FALSE,
     data |-> Undefined, error |-> NoError, call |-> "", entity |-> Undefined]

\* the switch without its catch block: a thrown error leaves the handler
RespondUncaught(r, okType, failType, thrownType, notFound, call, entity) ==
    CASE r.kind = "ok" -> Decision(r, okType, TRUE, NoError, call, entity)
      [] r.kind = "null" -> Decision(r, failType, FALSE, Err(notFound, "", ""), call, entity)
      [] OTHER -> Unknown(r.store)

\* "responseData ? okType : failType" with the catch block around the switch
Respond(r, okType, failType, thrownType, notFound, call, entity) ==
    CASE r.kind = "ok" -> Decision(r, okType, TRUE, NoError, call, entity)
      [] r.kind = "null" -> Decision(r, failType, FALSE, Err(notFound, "", ""), call, entity)
      [] OTHER -> Decision(r, thrownType, FALSE, r.error, call, entity)

customerDecision(S, event, uuid) ==
    LET t == event.eventType
        id == Get(event.data, "id")
        thrown == getFailureEventType(t)
    IN  CASE t = "CUSTOMER_CREATED" ->
               Respond(createCustomer(S, event.data, uuid), "CUSTOMER_CREATED_SUCCESS",
                       "CUSTOMER_CREATED_SUCCESS", thrown, "", "createCustomer", id)
          [] t = "CUSTOMER_UPDATED" ->
               Respond(updateCustomer(S, id, event.data), "CUSTOMER_UPDATED_SUCCESS",
                       "CUSTOMER_UPDATED_FAILED", thrown, "Customer not found",
                       "updateCustomer", id)
          [] t = "CUSTOMER_DELETED" ->
               Respond(deleteCustomer(S, id), "CUSTOMER_DELETED_SUCCESS",
                       "CUSTOMER_DELETED_FAILED", thrown,
                       "Customer not found or could not be deleted", "deleteCustomer", id)
          [] t = "CUSTOMER_REQUESTED" ->
               Respond(getCustomerById(S, id), "CUSTOMER_FOUND", "CUSTOMER_NOT_FOUND",
                       thrown, "Customer not found", "getCustomerById", id)
          [] t = "CUSTOMERS_REQUESTED" ->
               Respond(Ok(S, Cardinality(getCustomers(S, GetSeq(event.data, "search")))),
                       "CUSTOMERS_LIST_RESPONSE", "CUSTOMERS_LIST_RESPONSE", thrown, "",
                       "getCustomers", Undefined)
          [] OTHER -> Unknown(S)

itemDecision(S, event, uuid) ==
    LET t == event.eventType
        id == Get(event.data, "id")
        thrown == getItemFailureEventType(t)
    IN  CASE t = "ITEM_CREATED" ->
               Respond(createCustomerItem(S, event.data, uuid), "ITEM_CREATED_SUCCESS",
                       "ITEM_CREATED_SUCCESS", thrown, "", "createCustomerItem", id)
          [] t = "ITEM_UPDATED" ->
               Respond(updateCustomerItem(S, id, event.data), "ITEM_UPDATED_SUCCESS",
                       "ITEM_UPDATED_FAILED", thrown, "Item not found",
                       "updateCustomerItem", id)
          [] t = "ITEM_DELETED" ->
               Respond(deleteCustomerItem(S, id), "ITEM_DELETED_SUCCESS",
                       "ITEM_DELETED_FAILED", thrown,
                       "Item not found or could not be deleted", "deleteCustomerItem", id)
          [] t = "ITEM_REQUESTED" ->
               Respond(getCustomerItemById(S, Get(event.data, "itemId")), "ITEM_FOUND",
                       "ITEM_NOT_FOUND", thrown, "Item not found", "getCustomerItemById",
                       Get(event.data, "itemId"))
          [] t \in {"ITEMS_REQUESTED", "ALL_ITEMS_REQUESTED"} ->
               Respond(Ok(S, Cardinality(DOMAIN S.items)),
                       IF t = "ITEMS_REQUESTED" THEN "CUSTOMER_ITEMS_RESPONSE"
                                                ELSE "ALL_ITEMS_RESPONSE",
                       "", thrown, "", "getItems", Undefined)
          [] t = "ITEM_QUANTITY_UPDATED" ->
               Respond(updateItemQuantity(S, id, Get(event.data, "quantity"),
                                          IF "operation" \in DOMAIN event.data
                                          THEN event.data.operation ELSE "set"),
                       "ITEM_QUANTITY_UPDATED_SUCCESS", "ITEM_QUANTITY_UPDATED_FAILED",
                       thrown, "Failed to update item quantity", "updateItemQuantity", id)
          [] OTHER -> Unknown(S)

orderDecisionUnder(S, event, uuid, healthy) ==
    LET t == event.eventType
        id == Get(event.data, "id")
        thrown == getOrderFailureEventType(t)
    IN  CASE t = "ORDER_CREATED" ->
               Respond(createOrder(S, event.data, uuid), "ORDER_CREATED_SUCCESS",
                       "ORDER_CREATED_SUCCESS", thrown, "", "createOrder", id)
          [] t = "ORDER_UPDATED" ->
               Respond(updateOrder(S, id, event.data), "ORDER_UPDATED_SUCCESS",
                       "ORDER_UPDATED_FAILED", thrown, "Order not found", "updateOrder", id)
          [] t = "ORDER_CANCELLED" ->
               Respond(cancelOrderUnder(S, id,
                                        IF Truthy(GetStr(event.data, "reason"))
                                        THEN event.data.reason
                                        ELSE "No reason provided",
                                        healthy),
                       "ORDER_CANCELLED_SUCCESS", "ORDER_CANCEL_FAILED", thrown,
                       "Order not found or cannot be cancelled", "cancelOrder", id)
          [] t = "ORDER_REQUESTED" ->
               Respond(getOrderById(S, Get(event.data, "orderId")), "ORDER_FOUND",
                       "ORDER_NOT_FOUND", thrown, "Order not found", "getOrderById",
                       Get(event.data, "orderId"))
          [] t = "ORDER_DELETED" ->
               Respond(deleteOrder(S, id), "ORDER_DELETED_SUCCESS", "ORDER_DELETE_FAILED",
                       thrown, "Order not found or could not be deleted", "deleteOrder", id)
          [] OTHER -> Unknown(S)

orderDecision(S, event, uuid) == orderDecisionUnder(S, event, uuid, -1)

\* an outcome whose metadata is made anew instead of spread from the request's
publishUpdateEventFreshMetadata(O, topic, eventType, data, originalMetadata, eventId) ==
    [O EXCEPT ![topic] =
        Append(@, [eventId |-> eventId, eventType |-> eventType, data |-> data,
                   metadata |-> [correlationId |-> Undefined, userId |-> UndefinedStr,
                                 tenantId |-> UndefinedStr, source |-> "ENGINE"]])]

\* publishEvent(topic, {eventId, eventType, data, metadata: {...originalMetadata,
\* source: 'ENGINE', processedAt}})
publishUpdateEvent(O, topic, eventType, data, originalMetadata, eventId) ==
    [O EXCEPT ![topic] =
        Append(@, [eventId |-> eventId, eventType |-> eventType, data |-> data,
                   metadata |-> [k \in DOMAIN originalMetadata \cup {"source"} |->
                                    IF k = "source" THEN "ENGINE"
                                    ELSE originalMetadata[k]]])]

\* a message whose value is not JSON, under the key its producer gave it
Garbled(key, timestamp) == [eventId |-> key, timestamp |-> timestamp, garbled |-> TRUE]

\* JSON.parse(payload.message.value) returns
Parses(message) == "garbled" \notin DOMAIN message

\* the outcome topic of a request topic
PairedTopic(topic) ==
    CASE topic = customerEvents -> customerUpdates
      [] topic = customerItemsEvents -> itemUpdates
      [] OTHER -> orderUpdates

\* how often a handler was handed the event
Delivered(eventId) == IF eventId \in DOMAIN handled THEN handled[eventId] ELSE 0

\* the service calls that draw a uuid
Generating == {"createCustomer", "createCustomerItem", "createOrder"}

\* The body of a handler after JSON.parse: the switch, then the outcome.  The outcome's
\* eventId, `${Date.now()}-${random}`, is a fresh string: the model writes it as the
\* request's eventId and the number of the delivery.
Handled(topic, outcomeTopic, partition, d) ==
    LET event == NextMessage(topic, partition)
    IN  /\ Pending(topic, partition)
        /\ Parses(event)
        /\ offset' = [offset EXCEPT ![topic][partition] = @ + 1]
        /\ handled' = [e \in DOMAIN handled \cup {event.eventId} |->
                          IF e = event.eventId THEN Delivered(e) + 1 ELSE handled[e]]
        /\ store' = d.store
        /\ nextUuid' = IF d.call \in Generating THEN nextUuid + 1 ELSE nextUuid
        /\ IF d.recognized
           THEN /\ outcomes' = publishUpdateEvent(outcomes, outcomeTopic, d.updateEventType,
                                   [success |-> d.success, data |-> d.data, error |-> d.error,
                                    originalEvent |->
                                       [eventId |-> event.eventId,
                                        eventType |-> event.eventType,
                                        correlationId |-> Get(event.metadata, "correlationId")]],
                                   event.metadata,
                                   <<"ENGINE", event.eventId, Delivered(event.eventId)>>)
                /\ calls' = [calls EXCEPT ![topic] =
                                Append(@, [call |-> d.call, entity |-> d.entity,
                                           eventId |-> event.eventId,
                                           timestamp |-> event.timestamp])]
           ELSE UNCHANGED <<outcomes, calls>>
        /\ UNCHANGED <<log, cache, clock, acks, lastRead, redelivered, budget, wsVars>>

\* the handler while the process serves: nothing of the connections changes
Handle(topic, outcomeTopic, partition, d) ==
    Handled(topic, outcomeTopic, partition, d) /\ UNCHANGED nodeVars

\* the handler throws out of eachMessage: the consumer does not resolve the message's
\* offset and fetches the message again.  What the service call has written stays.
Rethrown(topic, partition, d) ==
    LET event == NextMessage(topic, partition)
    IN  /\ Pending(topic, partition)
        /\ redelivered < MaxRedeliver
        /\ redelivered' = redelivered + 1
        /\ handled' = [e \in DOMAIN handled \cup {event.eventId} |->
                          IF e = event.eventId THEN Delivered(e) + 1 ELSE handled[e]]
        /\ store' = d.store
        /\ nextUuid' = IF d.call \in Generating THEN nextUuid + 1 ELSE nextUuid
        /\ IF d.recognized
           THEN calls' = [calls EXCEPT ![topic] =
                             Append(@, [call |-> d.call, entity |-> d.entity,
                                        eventId |-> event.eventId,
                                        timestamp |-> event.timestamp])]
           ELSE UNCHANGED calls
        /\ UNCHANGED <<log, offset, outcomes, cache, clock, acks, lastRead, budget, wsVars>>

Rethrow(topic, partition, d) == Rethrown(topic, partition, d) /\ UNCHANGED nodeVars

\* JSON.parse throws on the message's value
handleUnparseable(topic, partition) ==
    /\ Pending(topic, partition)
    /\ ~Parses(NextMessage(topic, partition))
    /\ Rethrow(topic, partition, Unknown(store))

\* the service call returns or throws, then publishUpdateEvent throws (the producer is
\* not connected, or the broker rejects the send)
handleCustomerEventPublishFails(partition) ==
    /\ Pending(customerEvents, partition)
    /\ Parses(NextMessage(customerEvents, partition))
    /\ customerDecision(store, NextMessage(customerEvents, partition), nextUuid).recognized
    /\ Rethrow(customerEvents, partition,
               customerDecision(store, NextMessage(customerEvents, partition), nextUuid))

handleCustomerEvent(partition) ==
    /\ Pending(customerEvents, partition)
    /\ Handle(customerEvents, customerUpdates, partition,
              customerDecision(store, NextMessage(customerEvents, partition), nextUuid))

handleCustomerItemEvent(partition) ==
    /\ Pending(customerItemsEvents, partition)
    /\ Handle(customerItemsEvents, itemUpdates, partition,
              itemDecision(store, NextMessage(customerItemsEvents, partition), nextUuid))

handleOrderEvent(partition) ==
    /\ Pending(orderEvents, partition)
    /\ Handle(orderEvents, orderUpdates, partition,
              orderDecision(store, NextMessage(orderEvents, partition), nextUuid))

\* the handler of order-events takes a cancel request while the database fails after
\* `healthy` statements of the pool
handleOrderEventOutage(partition, healthy) ==
    /\ Pending(orderEvents, partition)
    /\ NextMessage(orderEvents, partition).eventType = "ORDER_CANCELLED"
    /\ Handle(orderEvents, orderUpdates, partition,
              orderDecisionUnder(store, NextMessage(orderEvents, partition), nextUuid,
                                 healthy))

\* the broker hands a message to the group again (a rebalance or a restart before the
\* offset was committed): at-least-once delivery
Redeliver(topic, partition) ==
    /\ redelivered < MaxRedeliver
    /\ offset[topic][partition] > 0
    /\ offset' = [offset EXCEPT ![topic][partition] = @ - 1]
    /\ redelivered' = redelivered + 1
    /\ UNCHANGED <<store, log, outcomes, cache, nextUuid, clock, calls, handled, acks,
                   lastRead, budget, wsVars, nodeVars>>

----------------------------------------------------------------------------
(* RedisService: a key is a tuple of its colon-separated parts, an entry the value   *)
(* with the seconds it was given to live.  A command on a connection that is down     *)
(* rejects; every method catches the error and returns null, false or 0.              *)

deleteKey(C, key) == IF redis = "ready" THEN [k \in DOMAIN C \ {key} |-> C[k]] ELSE C

\* redis.keys(prefix + '*') followed by redis.del(...keys)
deletePattern(C, prefix) ==
    IF redis = "ready"
    THEN [k \in {x \in DOMAIN C :
                    ~(Len(x) >= Len(prefix) /\ SubSeq(x, 1, Len(prefix)) = prefix)}
             |-> C[k]]
    ELSE C

\* redis.set(key, serialized): the entry never expires
setKeyForever(C, key, value, ttl) ==
    IF redis = "ready"
    THEN [k \in DOMAIN C \cup {key} |->
             IF k = key THEN [value |-> value, ttl |-> 0] ELSE C[k]]
    ELSE C

\* redis.setex(key, ttl, serialized)
setKey(C, key, value, ttl) ==
    IF redis = "ready"
    THEN [k \in DOMAIN C \cup {key} |->
             IF k = key THEN [value |-> value, ttl |-> ttl] ELSE C[k]]
    ELSE C

\* the value under the key, or null (<<>>): no such key, or an error that is caught
getKey(C, key) == IF redis = "ready" /\ key \in DOMAIN C THEN C[key].value ELSE <<>>

getTTL(type) ==
    CASE type = "customer" -> 3600
      [] type = "customerList" -> 600
      [] type = "item" -> 1800
      [] type = "itemList" -> 600
      [] type = "order" -> 900
      [] type = "orderList" -> 300
      [] OTHER -> 3600

getItemKey(itemId) == <<"item", itemId>>
getCustomerKey(customerId) == <<"customer", customerId>>
getOrderKey(orderId) == <<"order", orderId>>

\* Buffer.from(search).toString('base64'), for the strings of the model
Base64(search) ==
    CASE search = "a" -> "YQ=="
      [] search = "b" -> "Yg=="
      [] search = "YQ==" -> "WVE9PQ=="
      [] search = "1" -> "MQ=="

\* part ? `:${part}` : ''
Part(part) == IF part # "" THEN <<part>> ELSE <<>>

searchPart(search) == IF search # "" THEN <<Base64(search)>> ELSE <<>>

getCustomerItemsListKey(customerId, page, limit, category, search) ==
    <<"items", "customer", ToString(customerId), ToString(page), ToString(limit)>>
        \o Part(category) \o searchPart(search)

getOrdersListKey(page, limit, status, customerId, search) ==
    <<"orders", "list", ToString(page), ToString(limit)>>
        \o Part(status) \o Part(customerId) \o searchPart(search)

\* itemController.getItemsListCacheKey
getItemsListCacheKey(page, limit, category, search, customerId) ==
    <<"items", "list", ToString(page), ToString(limit)>>
        \o Part(category) \o searchPart(search) \o Part(customerId)

invalidateCustomerItem(C, itemId) ==
    deleteKey(deletePattern(C, <<"items", "list">>), getItemKey(itemId))

----------------------------------------------------------------------------
(* REST controllers: the write endpoints *)

\* {...a, ...b}
Merge(a, b) == [k \in DOMAIN a \cup DOMAIN b |-> IF k \in DOMAIN b THEN b[k] ELSE a[k]]

\* the x-user-id and x-tenant-id headers of a request
Metadata(correlationId, headers) ==
    [correlationId |-> correlationId, userId |-> headers.userId,
     tenantId |-> headers.tenantId]

\* an HTTP response as the history keeps it: status code, data.id and data.correlationId
\* of the body, and the eventId of the event the request published
Response(code, id, correlationId, eventId) ==
    [code |-> code, id |-> id, correlationId |-> correlationId, eventId |-> eventId]

\* The partitioner hashes the message key, a fresh uuid, so a message can land on any
\* partition.  Partitions of a topic are interchangeable: it is enough to consider the
\* partitions already in use and the first unused one.
Routes(topic) == {p \in Partitions : \A q \in Partitions : q < p => log[topic][q] # <<>>}

\* a request is served while the clients' budget of requests lasts
Accepting(topic, partition) == budget > 0 /\ partition \in Routes(topic)

\* what every write endpoint leaves alone
WriteFrame ==
    UNCHANGED <<store, offset, outcomes, calls, handled, lastRead, redelivered, wsVars, nodeVars>>

(* controllers/customer.controller.ts, validating with Joi *)

CustomerController_createCustomer(headers, name, email, partition) ==
    LET customerId == nextUuid
        correlationId == nextUuid + 1
        eventId == nextUuid + 2
    IN  /\ Accepting(customerEvents, partition)
        /\ log' = publishCustomerEvent(log, "CUSTOMER_CREATED",
                      [id |-> customerId, name |-> name, email |-> email,
                       createdAt |-> clock, updatedAt |-> clock],
                      Metadata(correlationId, headers), eventId, clock, partition)
        /\ acks' = Append(acks, Response(202, customerId, Undefined, eventId))
        /\ nextUuid' = nextUuid + 3
        /\ clock' = clock + 1
        /\ budget' = budget - 1
        /\ UNCHANGED cache
        /\ WriteFrame

CustomerController_updateCustomer(headers, customerId, updateData, partition) ==
    LET correlationId == nextUuid
        eventId == nextUuid + 1
    IN  /\ Accepting(customerEvents, partition)
        /\ log' = publishCustomerEvent(log, "CUSTOMER_UPDATED",
                      Merge(Merge([id |-> customerId], updateData), [updatedAt |-> clock]),
                      Metadata(correlationId, headers), eventId, clock, partition)
        /\ acks' = Append(acks, Response(202, customerId, Undefined, eventId))
        /\ nextUuid' = nextUuid + 2
        /\ clock' = clock + 1
        /\ budget' = budget - 1
        /\ UNCHANGED cache
        /\ WriteFrame

CustomerController_deleteCustomer(headers, customerId, partition) ==
    LET correlationId == nextUuid
        eventId == nextUuid + 1
    IN  /\ Accepting(customerEvents, partition)
        /\ log' = publishCustomerEvent(log, "CUSTOMER_DELETED",
                      [id |-> customerId, deletedAt |-> clock],
                      Metadata(correlationId, headers), eventId, clock, partition)
        /\ acks' = Append(acks, Response(202, customerId, Undefined, eventId))
        /\ nextUuid' = nextUuid + 2
        /\ clock' = clock + 1
        /\ budget' = budget - 1
        /\ UNCHANGED cache
        /\ WriteFrame

(* controllers/items.controller.ts, validating with Joi and invalidating Redis *)

itemController_createCustomerItem(headers, customerId, price, quantity, partition) ==
    LET itemId == nextUuid
        correlationId == nextUuid + 1
        eventId == nextUuid + 2
    IN  /\ Accepting(customerItemsEvents, partition)
        /\ log' = publishCustomerItemEvent(log, "ITEM_CREATED",
                      [id |-> itemId, customerId |-> customerId, price |-> price,
                       quantity |-> quantity, createdAt |-> clock, updatedAt |-> clock],
                      Metadata(correlationId, headers), eventId, clock, partition)
        /\ cache' = deletePattern(deletePattern(cache, <<"items", "list">>),
                                  <<"items", "customer", ToString(customerId)>>)
        /\ acks' = Append(acks, Response(202, itemId, Undefined, eventId))
        /\ nextUuid' = nextUuid + 3
        /\ clock' = clock + 1
        /\ budget' = budget - 1
        /\ WriteFrame

itemController_updateCustomerItem(headers, itemId, updateData, partition) ==
    LET correlationId == nextUuid
        eventId == nextUuid + 1
    IN  /\ Accepting(customerItemsEvents, partition)
        /\ log' = publishCustomerItemEvent(log, "ITEM_UPDATED",
                      Merge(Merge([id |-> itemId], updateData), [updatedAt |-> clock]),
                      Metadata(correlationId, headers), eventId, clock, partition)
        /\ cache' = invalidateCustomerItem(cache, itemId)
        /\ acks' = Append(acks, Response(202, itemId, Undefined, eventId))
        /\ nextUuid' = nextUuid + 2
        /\ clock' = clock + 1
        /\ budget' = budget - 1
        /\ WriteFrame

itemController_deleteCustomerItem(headers, itemId, partition) ==
    LET correlationId == nextUuid
        eventId == nextUuid + 1
    IN  /\ Accepting(customerItemsEvents, partition)
        /\ log' = publishCustomerItemEvent(log, "ITEM_DELETED",
                      [id |-> itemId, deletedAt |-> clock],
                      Metadata(correlationId, headers), eventId, clock, partition)
        /\ cache' = invalidateCustomerItem(cache, itemId)
        /\ acks' = Append(acks, Response(202, itemId, Undefined, eventId))
        /\ nextUuid' = nextUuid + 2
        /\ clock' = clock + 1
        /\ budget' = budget - 1
        /\ WriteFrame

itemController_updateItemQuantity(headers, itemId, quantity, operation, partition) ==
    LET correlationId == nextUuid
        eventId == nextUuid + 1
    IN  /\ Accepting(customerItemsEvents, partition)
        /\ log' = publishCustomerItemEvent(log, "ITEM_QUANTITY_UPDATED",
                      [id |-> itemId, quantity |-> quantity, operation |-> operation,
                       updatedAt |-> clock],
                      Metadata(correlationId, headers), eventId, clock, partition)
        /\ cache' = invalidateCustomerItem(cache, itemId)
        /\ acks' = Append(acks, Response(202, itemId, Undefined, eventId))
        /\ nextUuid' = nextUuid + 2
        /\ clock' = clock + 1
        /\ budget' = budget - 1
        /\ WriteFrame

(* controllers/order.controller.ts, validating with Joi *)

OrderController_createOrder(headers, customerId, items, partition) ==
    LET orderId == nextUuid
        correlationId == nextUuid + 1
        eventId == nextUuid + 2
    IN  /\ Accepting(orderEvents, partition)
        /\ log' = publishOrderEvent(log, "ORDER_CREATED",
                      [id |-> orderId, customerId |-> customerId, items |-> items,
                       status |-> "PENDING", orderDate |-> clock, createdAt |-> clock,
                       updatedAt |-> clock],
                      Metadata(correlationId, headers), eventId, clock, partition)
        /\ acks' = Append(acks, Response(202, orderId, Undefined, eventId))
        /\ nextUuid' = nextUuid + 3
        /\ clock' = clock + 1
        /\ budget' = budget - 1
        /\ UNCHANGED cache
        /\ WriteFrame

OrderController_updateOrder(headers, orderId, updateData, partition) ==
    LET correlationId == nextUuid
        eventId == nextUuid + 1
    IN  /\ Accepting(orderEvents, partition)
        /\ log' = publishOrderEvent(log, "ORDER_UPDATED",
                      Merge(Merge([id |-> orderId], updateData), [updatedAt |-> clock]),
                      Metadata(correlationId, headers), eventId, clock, partition)
        /\ acks' = Append(acks, Response(202, orderId, Undefined, eventId))
        /\ nextUuid' = nextUuid + 2
        /\ clock' = clock + 1
        /\ budget' = budget - 1
        /\ UNCHANGED cache
        /\ WriteFrame

OrderController_cancelOrder(headers, orderId, reason, partition) ==
    LET correlationId == nextUuid
        eventId == nextUuid + 1
    IN  /\ Accepting(orderEvents, partition)
        /\ log' = publishOrderEvent(log, "ORDER_CANCELLED",
                      [id |-> orderId, status |-> "CANCELLED",
                       reason |-> IF Truthy(reason) THEN reason ELSE "Cancelled by user",
                       cancelledAt |-> clock, updatedAt |-> clock],
                      Metadata(correlationId, headers), eventId, clock, partition)
        /\ acks' = Append(acks, Response(202, orderId, Undefined, eventId))
        /\ nextUuid' = nextUuid + 2
        /\ clock' = clock + 1
        /\ budget' = budget - 1
        /\ UNCHANGED cache
        /\ WriteFrame

OrderController_deleteOrder(headers, orderId, partition) ==
    LET correlationId == nextUuid
        eventId == nextUuid + 1
    IN  /\ Accepting(orderEvents, partition)
        /\ log' = publishOrderEvent(log, "ORDER_DELETED",
                      [id |-> orderId, deletedAt |-> clock],
                      Metadata(correlationId, headers), eventId, clock, partition)
        /\ acks' = Append(acks, Response(202, orderId, Undefined, eventId))
        /\ nextUuid' = nextUuid + 2
        /\ clock' = clock + 1
        /\ budget' = budget - 1
        /\ UNCHANGED cache
        /\ WriteFrame

(* The by-id endpoints that publish a query event and answer 200 at once: the id is   *)
(* the path parameter as it came                                                       *)

\* what a query endpoint leaves alone
QueryFrame ==
    UNCHANGED <<store, offset, outcomes, cache, calls, handled, lastRead, redelivered,
                wsVars, nodeVars>>

CustomerController_getCustomerById(headers, customerId, partition) ==
    LET requestId == nextUuid
        correlationId == nextUuid + 1
        eventId == nextUuid + 2
    IN  /\ Accepting(customerEvents, partition)
        /\ log' = publishCustomerEvent(log, "CUSTOMER_REQUESTED",
                      [id |-> customerId, requestId |-> requestId],
                      Metadata(correlationId, headers), eventId, clock, partition)
        /\ acks' = Append(acks, Response(200, customerId, Undefined, eventId))
        /\ nextUuid' = nextUuid + 3
        /\ clock' = clock + 1
        /\ budget' = budget - 1
        /\ QueryFrame

itemController_getCustomerItemByIdQuery(headers, itemId, partition) ==
    LET requestId == nextUuid
        correlationId == nextUuid + 1
        eventId == nextUuid + 2
    IN  /\ Accepting(customerItemsEvents, partition)
        /\ log' = publishCustomerItemEvent(log, "ITEM_REQUESTED",
                      [itemId |-> itemId, requestId |-> requestId],
                      Metadata(correlationId, headers), eventId, clock, partition)
        /\ acks' = Append(acks, Response(200, itemId, Undefined, eventId))
        /\ nextUuid' = nextUuid + 3
        /\ clock' = clock + 1
        /\ budget' = budget - 1
        /\ QueryFrame

OrderController_getOrderById(headers, orderId, partition) ==
    LET requestId == nextUuid
        correlationId == nextUuid + 1
        eventId == nextUuid + 2
    IN  /\ Accepting(orderEvents, partition)
        /\ log' = publishOrderEvent(log, "ORDER_REQUESTED",
                      [orderId |-> orderId, requestId |-> requestId],
                      Metadata(correlationId, headers), eventId, clock, partition)
        /\ acks' = Append(acks, Response(200, orderId, Undefined, eventId))
        /\ nextUuid' = nextUuid + 3
        /\ clock' = clock + 1
        /\ budget' = budget - 1
        /\ QueryFrame

(* KafkaService.publishOrderEvent as any producer of order-events calls it: the event   *)
(* type and the payload are the caller's                                               *)

KafkaService_publishOrderEvent(eventType, data, metadata, partition) ==
    LET eventId == nextUuid
    IN  /\ Accepting(orderEvents, partition)
        /\ log' = publishOrderEvent(log, eventType, data, metadata, eventId, clock, partition)
        /\ nextUuid' = nextUuid + 1
        /\ clock' = clock + 1
        /\ budget' = budget - 1
        /\ UNCHANGED <<cache, acks>>
        /\ WriteFrame

(* the cache-first controllers (customer.controller.ts and order.controller.ts with    *)
(* Redis): the body is published as it came, the correlation id is the request's      *)
(* x-correlation-id header or a fresh uuid, and the 202 body returns it               *)

CorrelationOf(headers, uuid) ==
    IF headers.correlationId # Undefined THEN headers.correlationId ELSE uuid

CachedCustomerController_createCustomer(headers, body, partition) ==
    LET customerId == nextUuid
        correlationId == CorrelationOf(headers, nextUuid + 1)
        eventId == nextUuid + 2
    IN  /\ Accepting(customerEvents, partition)
        /\ GetSeq(body, "name") # <<>> /\ GetSeq(body, "email") # <<>>
        /\ log' = publishCustomerEvent(log, "CUSTOMER_CREATE_REQUESTED",
                      Merge([id |-> customerId], body),
                      Metadata(correlationId, headers), eventId, clock, partition)
        /\ acks' = Append(acks, Response(202, customerId, correlationId, eventId))
        /\ nextUuid' = nextUuid + 3
        /\ clock' = clock + 1
        /\ budget' = budget - 1
        /\ UNCHANGED cache
        /\ WriteFrame

CachedCustomerController_updateCustomer(headers, customerId, body, partition) ==
    LET correlationId == CorrelationOf(headers, nextUuid)
        eventId == nextUuid + 1
    IN  /\ Accepting(customerEvents, partition)
        /\ log' = publishCustomerEvent(log, "CUSTOMER_UPDATE_REQUESTED",
                      Merge([id |-> customerId], body),
                      Metadata(correlationId, headers), eventId, clock, partition)
        /\ acks' = Append(acks, Response(202, customerId, correlationId, eventId))
        /\ nextUuid' = nextUuid + 2
        /\ clock' = clock + 1
        /\ budget' = budget - 1
        /\ UNCHANGED cache
        /\ WriteFrame

CachedCustomerController_deleteCustomer(headers, customerId, partition) ==
    LET correlationId == CorrelationOf(headers, nextUuid)
        eventId == nextUuid + 1
    IN  /\ Accepting(customerEvents, partition)
        /\ log' = publishCustomerEvent(log, "CUSTOMER_DELETE_REQUESTED",
                      [id |-> customerId],
                      Metadata(correlationId, headers), eventId, clock, partition)
        /\ acks' = Append(acks, Response(202, customerId, correlationId, eventId))
        /\ nextUuid' = nextUuid + 2
        /\ clock' = clock + 1
        /\ budget' = budget - 1
        /\ UNCHANGED cache
        /\ WriteFrame

CachedOrderController_createOrder(headers, body, partition) ==
    LET orderId == nextUuid
        correlationId == CorrelationOf(headers, nextUuid + 1)
        eventId == nextUuid + 2
    IN  /\ Accepting(orderEvents, partition)
        /\ Get(body, "customerId") # Undefined /\ GetSeq(body, "items") # <<>>
        /\ log' = publishOrderEvent(log, "ORDER_CREATE_REQUESTED",
                      Merge([id |-> orderId], body),
                      Metadata(correlationId, headers), eventId, clock, partition)
        /\ acks' = Append(acks, Response(202, orderId, correlationId, eventId))
        /\ nextUuid' = nextUuid + 3
        /\ clock' = clock + 1
        /\ budget' = budget - 1
        /\ UNCHANGED cache
        /\ WriteFrame

CachedOrderController_updateOrder(headers, orderId, body, partition) ==
    LET correlationId == CorrelationOf(headers, nextUuid)
        eventId == nextUuid + 1
    IN  /\ Accepting(orderEvents, partition)
        /\ log' = publishOrderEvent(log, "ORDER_UPDATE_REQUESTED",
                      Merge([id |-> orderId], body),
                      Metadata(correlationId, headers), eventId, clock, partition)
        /\ acks' = Append(acks, Response(202, orderId, correlationId, eventId))
        /\ nextUuid' = nextUuid + 2
        /\ clock' = clock + 1
        /\ budget' = budget - 1
        /\ UNCHANGED cache
        /\ WriteFrame

CachedOrderController_cancelOrder(headers, orderId, partition) ==
    LET correlationId == CorrelationOf(headers, nextUuid)
        eventId == nextUuid + 1
    IN  /\ Accepting(orderEvents, partition)
        /\ log' = publishOrderEvent(log, "ORDER_CANCEL_REQUESTED",
                      [id |-> orderId],
                      Metadata(correlationId, headers), eventId, clock, partition)
        /\ acks' = Append(acks, Response(202, orderId, correlationId, eventId))
        /\ nextUuid' = nextUuid + 2
        /\ clock' = clock + 1
        /\ budget' = budget - 1
        /\ UNCHANGED cache
        /\ WriteFrame

CachedOrderController_deleteOrder(headers, orderId, partition) ==
    LET correlationId == CorrelationOf(headers, nextUuid)
        eventId == nextUuid + 1
    IN  /\ Accepting(orderEvents, partition)
        /\ log' = publishOrderEvent(log, "ORDER_DELETE_REQUESTED",
                      [id |-> orderId],
                      Metadata(correlationId, headers), eventId, clock, partition)
        /\ acks' = Append(acks, Response(202, orderId, correlationId, eventId))
        /\ nextUuid' = nextUuid + 2
        /\ clock' = clock + 1
        /\ budget' = budget - 1
        /\ UNCHANGED cache
        /\ WriteFrame

----------------------------------------------------------------------------
(* REST controllers: the cache-first read endpoints *)

\* a response of a read endpoint as the history keeps it: the cache key of the entity,
\* the status code, metadata.cacheHit and metadata.source of the body ("undefined" and
\* "" when the body has none), its data, the row the database held when the response
\* was sent (<<>> when it held none), and whether the request queried the database
ReadResponse(key, code, cacheHit, source, value, stored, queried) ==
    [key |-> key, code |-> code, cacheHit |-> cacheHit, source |-> source,
     value |-> value, stored |-> stored, queried |-> queried]

Row(table, id) == IF id \in DOMAIN table THEN table[id] ELSE <<>>

\* what a read endpoint that publishes nothing leaves alone
ReadFrame ==
    UNCHANGED <<store, log, offset, outcomes, nextUuid, clock, calls, handled, acks,
                redelivered, budget, wsVars, nodeVars>>

itemController_getCustomerItemById(headers, itemId, partition) ==
    LET key == getItemKey(itemId)
        item == getKey(cache, key)
        found == getCustomerItemById(store, itemId)
        stored == Row(store.items, itemId)
    IN  IF item # <<>>
        THEN /\ lastRead' = ReadResponse(key, 200, "true", "cache", item, stored, FALSE)
             /\ UNCHANGED cache
             /\ ReadFrame
        ELSE IF found.kind = "ok"
        THEN /\ cache' = setKey(cache, key, store.items[itemId], getTTL("item"))
             /\ lastRead' = ReadResponse(key, 200, "false", "database",
                                          store.items[itemId], stored, TRUE)
             /\ ReadFrame
        ELSE \* no such item, or an error: the request goes to the processor
             /\ Accepting(customerItemsEvents, partition)
             /\ log' = publishCustomerItemEvent(log, "ITEM_REQUESTED",
                           [itemId |-> itemId, requestId |-> nextUuid],
                           Metadata(nextUuid + 1, headers), nextUuid + 2, clock, partition)
             /\ nextUuid' = nextUuid + 3
             /\ clock' = clock + 1
             /\ budget' = budget - 1
             /\ lastRead' = ReadResponse(key, 200, UndefinedStr, "", <<>>, stored, TRUE)
             /\ UNCHANGED <<store, offset, outcomes, cache, calls, handled, acks, redelivered,
                            wsVars, nodeVars>>

\* the read where RedisService.get lets the error of the connection through: the
\* controller's catch answers 500
getByIdUncaught(key, found, row, ttl) ==
    /\ IF redis = "down"
       THEN /\ lastRead' = ReadResponse(key, 500, UndefinedStr, "", <<>>, row, FALSE)
            /\ UNCHANGED cache
       ELSE IF key \in DOMAIN cache
       THEN /\ lastRead' = ReadResponse(key, 200, "true", "cache", cache[key].value, row,
                                         FALSE)
            /\ UNCHANGED cache
       ELSE IF found.kind = "ok"
       THEN /\ cache' = setKey(cache, key, row, ttl)
            /\ lastRead' = ReadResponse(key, 200, "false", "database", row, row, TRUE)
       ELSE /\ lastRead' = ReadResponse(key, 404, "false", "", <<>>, row, TRUE)
            /\ UNCHANGED cache
    /\ ReadFrame

\* The cache-first read of the customer and of the order controller: the cache, then
\* the database, then the cache again.  found is the result of the service's query.
getById(key, found, row, ttl) ==
    LET cached == getKey(cache, key)
    IN  /\ IF cached # <<>>
           THEN /\ lastRead' = ReadResponse(key, 200, "true", "cache", cached, row, FALSE)
                /\ UNCHANGED cache
           ELSE IF found.kind = "throw"
           THEN /\ lastRead' = ReadResponse(key, 500, UndefinedStr, "", <<>>, row, TRUE)
                /\ UNCHANGED cache
           ELSE IF found.kind = "ok"
           THEN /\ cache' = setKey(cache, key, row, ttl)
                /\ lastRead' = ReadResponse(key, 200, "false", "database", row, row, TRUE)
           ELSE /\ lastRead' = ReadResponse(key, 404, "false", "", <<>>, row, TRUE)
                /\ UNCHANGED cache
        /\ ReadFrame

CachedCustomerController_getCustomerById(customerId) ==
    getById(getCustomerKey(customerId), getCustomerById(store, customerId),
            Row(store.customers, customerId), getTTL("customer"))

\* redisService.set(orderCacheKey, order, 900)
CachedOrderController_getOrderById(orderId) ==
    getById(getOrderKey(orderId), getOrderById(store, orderId),
            Row(store.orders, orderId), 900)

(* the list endpoints of itemController.  The rows of the model carry neither a name  *)
(* nor a category, so a query that filters on either finds no row.                    *)

\* SELECT * FROM customer_items [WHERE customer_id = .. AND category = .. AND name ILIKE ..]
getItems(S, active, customerId, category, search) ==
    LET ids == {i \in DOMAIN S.items :
                   /\ active => S.items[i].status = "ACTIVE"
                   /\ customerId # "" => ToString(S.items[i].customerId) = customerId
                   /\ category = ""
                   /\ search = ""}
    IN  [items |-> [i \in ids |-> S.items[i]], total |-> Cardinality(ids)]

\* the query is answered under the key
Asked(key, query) ==
    [k \in DOMAIN queries \cup {key} |->
        (IF k \in DOMAIN queries THEN queries[k] ELSE {}) \cup
        (IF k = key THEN {query} ELSE {})]

\* the cache, then the database, then the cache again
getList(key, query, result, ttl) ==
    LET cached == getKey(cache, key)
    IN  /\ IF cached # <<>>
           THEN /\ lastRead' = ReadResponse(key, 200, "true", "cache", cached, result, FALSE)
                /\ UNCHANGED cache
           ELSE /\ cache' = setKey(cache, key, result, ttl)
                /\ lastRead' = ReadResponse(key, 200, "false", "database", result, result,
                                             TRUE)
        /\ queries' = Asked(key, query)
        /\ UNCHANGED <<store, log, offset, outcomes, nextUuid, clock, calls, handled, acks,
                       redelivered, budget, wsVars, redis, runVars>>

\* GET /items/customer/:customerId.  ItemService.getCustomerItems throws when the
\* customer does not exist: the catch block sends the request to the processor.
itemController_getCustomerItems(headers, customerId, page, limit, category, search, partition) ==
    LET key == getCustomerItemsListKey(customerId, page, limit, category, search)
    IN  IF getKey(cache, key) # <<>> \/ getCustomerById(store, customerId).kind = "ok"
        THEN getList(key, <<ToString(customerId), page, limit, category, search>>,
                     getItems(store, TRUE, ToString(customerId), category, search),
                     getTTL("itemList"))
        ELSE /\ Accepting(customerItemsEvents, partition)
             /\ log' = publishCustomerItemEvent(log, "ITEMS_REQUESTED",
                           [customerId |-> customerId, page |-> page, limit |-> limit,
                            category |-> category, search |-> search,
                            requestId |-> nextUuid],
                           Metadata(nextUuid + 1, headers), nextUuid + 2, clock, partition)
             /\ nextUuid' = nextUuid + 4
             /\ clock' = clock + 1
             /\ budget' = budget - 1
             /\ lastRead' = ReadResponse(key, 200, UndefinedStr, "", <<>>, <<>>, TRUE)
             /\ UNCHANGED <<store, offset, outcomes, cache, calls, handled, acks, redelivered,
                            wsVars, nodeVars>>

\* GET /items with no customerId or the id of a customer
itemController_getAllItems(page, limit, category, search, customerId) ==
    getList(getItemsListCacheKey(page, limit, category, search, customerId),
            <<customerId, page, limit, category, search>>,
            getItems(store, FALSE, customerId, category, search),
            getTTL("itemList"))

\* RedisService.cacheOrdersList followed by getCachedOrdersList with the same filters
cacheOrdersList(page, limit, status, customerId, search) ==
    LET key == getOrdersListKey(page, limit, status, customerId, search)
        ids == {o \in DOMAIN store.orders :
                   /\ status # "" => store.orders[o].status = status
                   /\ customerId # "" => ToString(store.orders[o].customerId) = customerId
                   /\ search = ""}
        data == [orders |-> [o \in ids |-> store.orders[o]], total |-> Cardinality(ids)]
    IN  /\ cache' = setKey(cache, key, data, getTTL("orderList"))
        /\ lastRead' = ReadResponse(key, 200, "false", "database", data, data, TRUE)
        /\ queries' = Asked(key, <<customerId, page, limit, status, search>>)
        /\ UNCHANGED <<store, log, offset, outcomes, nextUuid, clock, calls, handled, acks,
                       redelivered, budget, wsVars, redis, runVars>>

\* redis.on('error') and redis.on('close'): the connection is lost
redis_error ==
    /\ redis = "ready"
    /\ redis' = "down"
    /\ UNCHANGED <<store, log, offset, outcomes, cache, nextUuid, clock, calls, handled,
                   acks, lastRead, redelivered, budget, wsVars, queries, runVars>>

\* redis.on('connect'): ioredis has connected again
redis_connect ==
    /\ redis = "down"
    /\ redis' = "ready"
    /\ UNCHANGED <<store, log, offset, outcomes, cache, nextUuid, clock, calls, handled,
                   acks, lastRead, redelivered, budget, wsVars, queries, runVars>>

\* a key's time to live runs out
CacheExpire(key) ==
    /\ key \in DOMAIN cache
    /\ cache' = [k \in DOMAIN cache \ {key} |-> cache[k]]
    /\ UNCHANGED <<store, log, offset, outcomes, nextUuid, clock, calls, handled, acks,
                   lastRead, redelivered, budget, wsVars, nodeVars>>

----------------------------------------------------------------------------
(* A publish that fails: KafkaService.publishEvent throws, the controller's catch and  *)
(* the error middleware answer.  An error's message is the sequence of its words.      *)

\* what publishEvent throws: its own error when the producer is not connected, or the
\* error of producer.send
PublishErrors ==
    {[name |-> "Error", message |-> <<"Kafka", "producer", "not", "connected">>],
     [name |-> "KafkaJSConnectionError", message |-> <<"Connection", "timeout">>]}

\* middleware/errorHandler.ts (no error of publishEvent is an AppError or a SyntaxError)
errorHandler(error) ==
    IF Contains(error.message, <<"Kafka">>) THEN 503
    ELSE IF error.name = "ValidationError" THEN 400
    ELSE 500

\* the request is answered with the status code and nothing is published
Refuse(code) ==
    /\ budget > 0
    /\ acks' = Append(acks, Response(code, Undefined, Undefined, Undefined))
    /\ nextUuid' = nextUuid + 3
    /\ budget' = budget - 1
    /\ UNCHANGED <<log, cache, clock>>
    /\ WriteFrame

\* catch (error) { throw error }, through asyncHandler to errorHandler
OrderController_createOrderPublishFails(error) == Refuse(errorHandler(error))

\* catch (error) { res.status(500) }
CachedOrderController_createOrderPublishFails(error) == Refuse(500)

----------------------------------------------------------------------------
(* WebSocketService.  Time is counted in units of 30 s; a client's idle is the time   *)
(* since its lastActivity, kept up to Timeout + 1.  A socket has the readyState the   *)
(* ws library reports; faulty says that writing to it throws, responsive that the     *)
(* peer still sends messages and answers pings, pinged that a ping is unanswered.     *)

PingInterval == 1
CheckInterval == 2
Timeout == 10

Subscription(eventTypes, channels) == [eventTypes |-> eventTypes, channels |-> channels]

NoEvent == [eventType |-> ""]

WsMessage(type, channel, event) == [type |-> type, channel |-> channel, event |-> event]

Without(C, clientId) == [c \in DOMAIN C \ {clientId} |-> C[c]]

\* the entries of the Map, in insertion order (client ids grow with connection time)
RECURSIVE entries(_)
entries(ids) ==
    IF ids = {} THEN <<>>
    ELSE LET first == CHOOSE c \in ids : \A d \in ids : c <= d
         IN  <<first>> \o entries(ids \ {first})

\* the channel's tenant check as one that lets every tenant through
shouldReceiveUpdateAnyTenant(client, channel, updateData) ==
    \E i \in 1..Len(client.subscriptions) :
        LET sub == client.subscriptions[i]
        IN  /\ channel \in sub.channels
            /\ sub.eventTypes = {} \/ updateData.eventType \in sub.eventTypes

shouldReceiveUpdate(client, channel, updateData) ==
    \E i \in 1..Len(client.subscriptions) :
        LET sub == client.subscriptions[i]
            channelMatch == channel \in sub.channels
            eventTypeMatch == sub.eventTypes = {} \/ updateData.eventType \in sub.eventTypes
            tenantMatch == \/ ~Truthy(client.tenantId)
                           \/ ~Truthy(updateData.metadata.tenantId)
                           \/ client.tenantId = updateData.metadata.tenantId
        IN  channelMatch /\ eventTypeMatch /\ tenantMatch

\* a catch block that logs the failed send and keeps the client
sendToClientKeep(W, clientId, message) ==
    IF clientId \notin DOMAIN W.clients \/ W.clients[clientId].readyState # "OPEN" THEN W
    ELSE IF W.clients[clientId].faulty THEN W
    ELSE IF message.type = "EVENT_UPDATE"
    THEN [W EXCEPT !.sent[clientId] = Append(@, message)]
    ELSE W

\* W is [clients, sent]; a send that throws deletes the client.  The history keeps the
\* EVENT_UPDATE messages.
sendToClient(W, clientId, message) ==
    IF clientId \notin DOMAIN W.clients \/ W.clients[clientId].readyState # "OPEN" THEN W
    ELSE IF W.clients[clientId].faulty
    THEN [W EXCEPT !.clients = Without(W.clients, clientId)]
    ELSE IF message.type = "EVENT_UPDATE"
    THEN [W EXCEPT !.sent[clientId] = Append(@, message)]
    ELSE W

RECURSIVE broadcastTo(_, _, _, _)
broadcastTo(W, ids, channel, updateData) ==
    IF ids = <<>> THEN W
    ELSE LET clientId == Head(ids)
             after == IF shouldReceiveUpdate(W.clients[clientId], channel, updateData)
                      THEN sendToClient(W, clientId,
                                        WsMessage("EVENT_UPDATE", channel, updateData))
                      ELSE W
         IN  broadcastTo(after, Tail(ids), channel, updateData)

\* the message is sent n times
RECURSIVE sendTimes(_, _, _, _)
sendTimes(W, clientId, message, n) ==
    IF n = 0 THEN W ELSE sendTimes(sendToClient(W, clientId, message), clientId, message, n - 1)

\* a loop over the subscriptions that sends for each one that matches
RECURSIVE broadcastPerSubscription(_, _, _, _)
broadcastPerSubscription(W, ids, channel, updateData) ==
    IF ids = <<>> THEN W
    ELSE LET client == W.clients[Head(ids)]
             matching == {i \in 1..Len(client.subscriptions) :
                             shouldReceiveUpdate(
                                 [client EXCEPT !.subscriptions = <<client.subscriptions[i]>>],
                                 channel, updateData)}
         IN  broadcastPerSubscription(
                 sendTimes(W, Head(ids), WsMessage("EVENT_UPDATE", channel, updateData),
                           Cardinality(matching)),
                 Tail(ids), channel, updateData)

broadcastUpdateEach(W, channel, updateData) ==
    broadcastPerSubscription(W, entries(DOMAIN W.clients), channel, updateData)

broadcastUpdate(W, channel, updateData) ==
    broadcastTo(W, entries(DOMAIN W.clients), channel, updateData)

\* a SUBSCRIBE that puts the new subscription in the place of the client's earlier ones
handleClientMessageReplaces(W, clientId, message) ==
    IF clientId \notin DOMAIN W.clients THEN W
    ELSE LET active == [W EXCEPT !.clients[clientId].idle = 0]
             kept(sub) == /\ message.data.eventTypes \cap sub.eventTypes = {}
                          /\ message.data.channels \cap sub.channels = {}
             after ==
                CASE message.type = "SUBSCRIBE" ->
                       [active EXCEPT !.clients[clientId].subscriptions =
                           <<Subscription(message.data.eventTypes,
                                          message.data.channels)>>]
                  [] message.type = "UNSUBSCRIBE" ->
                       [active EXCEPT !.clients[clientId].subscriptions =
                           SelectSeq(@, kept)]
                  [] OTHER -> active
             reply ==
                CASE message.type \in {"SUBSCRIBE", "UNSUBSCRIBE"} -> "SUBSCRIPTION_ACK"
                  [] message.type = "PING" -> "PONG"
                  [] OTHER -> "ERROR"
         IN  sendToClient(after, clientId, WsMessage(reply, "", NoEvent))

\* handleClientMessage with handleSubscription, handleUnsubscription and sendError
handleClientMessage(W, clientId, message) ==
    IF clientId \notin DOMAIN W.clients THEN W
    ELSE LET active == [W EXCEPT !.clients[clientId].idle = 0]
             kept(sub) == /\ message.data.eventTypes \cap sub.eventTypes = {}
                          /\ message.data.channels \cap sub.channels = {}
             after ==
                CASE message.type = "SUBSCRIBE" ->
                       [active EXCEPT !.clients[clientId].subscriptions =
                           Append(@, Subscription(message.data.eventTypes,
                                                  message.data.channels))]
                  [] message.type = "UNSUBSCRIBE" ->
                       [active EXCEPT !.clients[clientId].subscriptions =
                           SelectSeq(@, kept)]
                  [] OTHER -> active
             reply ==
                CASE message.type \in {"SUBSCRIBE", "UNSUBSCRIBE"} -> "SUBSCRIPTION_ACK"
                  [] message.type = "PING" -> "PONG"
                  [] OTHER -> "ERROR"
         IN  sendToClient(after, clientId, WsMessage(reply, "", NoEvent))

WsFrame ==
    UNCHANGED <<store, log, offset, outcomes, cache, clock, calls, handled, acks, lastRead,
                redelivered, budget, nodeVars>>

\* wss.on('connection'): the client's ids come from the request's query or headers.
\* The uuid of a client is fresh among the clients' ids: the number of the connection.
connection(headers) ==
    LET clientId == Cardinality(DOMAIN sent) + 1
        client == [userId |-> headers.userId, tenantId |-> headers.tenantId,
                   subscriptions |-> <<>>, idle |-> 0, readyState |-> "OPEN",
                   faulty |-> FALSE, responsive |-> TRUE, pinged |-> FALSE]
        W == sendToClient([clients |-> [c \in DOMAIN clients \cup {clientId} |->
                                          IF c = clientId THEN client ELSE clients[c]],
                           sent |-> [c \in DOMAIN sent \cup {clientId} |->
                                       IF c = clientId THEN <<>> ELSE sent[c]]],
                          clientId, WsMessage("CONNECTION_ACK", "", NoEvent))
    IN  /\ Cardinality(DOMAIN sent) < MaxConnections
        /\ clients' = W.clients
        /\ sent' = W.sent
        /\ UNCHANGED <<nextUuid, consumed, sincePing, sinceCheck>>
        /\ WsFrame

\* ws.on('message') with a message that parses
ws_message(clientId, message) ==
    LET W == handleClientMessage([clients |-> clients, sent |-> sent], clientId, message)
    IN  /\ clientId \in DOMAIN clients
        /\ clients[clientId].readyState = "OPEN"
        /\ clients[clientId].responsive
        /\ message.type = "SUBSCRIBE" =>
              Len(clients[clientId].subscriptions) < MaxSubscriptions
        /\ clients' = W.clients
        /\ sent' = W.sent
        /\ UNCHANGED <<nextUuid, consumed, sincePing, sinceCheck>>
        /\ WsFrame

\* ws.on('close')
ws_close(clientId) ==
    /\ clientId \in DOMAIN clients
    /\ clients' = Without(clients, clientId)
    /\ UNCHANGED <<nextUuid, sent, consumed, sincePing, sinceCheck>>
    /\ WsFrame

\* ws.on('error')
ws_error(clientId) ==
    /\ clientId \in DOMAIN clients
    /\ clients' = Without(clients, clientId)
    /\ UNCHANGED <<nextUuid, sent, consumed, sincePing, sinceCheck>>
    /\ WsFrame

\* the ws.on('pong') handler of a service that does not count a pong as activity
ws_pongIgnored(clientId) ==
    /\ clientId \in DOMAIN clients
    /\ clients[clientId].readyState = "OPEN"
    /\ clients[clientId].responsive
    /\ clients[clientId].pinged
    /\ clients' = [clients EXCEPT ![clientId].pinged = FALSE]
    /\ UNCHANGED <<nextUuid, sent, consumed, sincePing, sinceCheck>>
    /\ WsFrame

\* ws.on('pong')
ws_pong(clientId) ==
    /\ clientId \in DOMAIN clients
    /\ clients[clientId].readyState = "OPEN"
    /\ clients[clientId].responsive
    /\ clients[clientId].pinged
    /\ clients' = [clients EXCEPT ![clientId].idle = 0, ![clientId].pinged = FALSE]
    /\ UNCHANGED <<nextUuid, sent, consumed, sincePing, sinceCheck>>
    /\ WsFrame

\* what happens to a socket outside the service: the peer starts the closing handshake,
\* the stream under an open socket breaks, the peer stops sending
Socket(clientId, field, value) ==
    /\ clientId \in DOMAIN clients
    /\ clients[clientId].readyState = "OPEN"
    /\ clients[clientId][field] # value
    /\ clients' = [clients EXCEPT ![clientId][field] = value]
    /\ UNCHANGED <<nextUuid, sent, consumed, sincePing, sinceCheck>>
    /\ WsFrame

peerCloses(clientId) == Socket(clientId, "readyState", "CLOSING")
socketBreaks(clientId) == Socket(clientId, "faulty", TRUE)
peerGoesSilent(clientId) == Socket(clientId, "responsive", FALSE)

\* the eachMessage handler of an outcome topic
handleKafkaUpdate(channel) ==
    LET message == outcomes[channel][consumed[channel] + 1]
        W == broadcastUpdate([clients |-> clients, sent |-> sent], channel, message)
    IN  /\ consumed[channel] < Len(outcomes[channel])
        /\ consumed' = [consumed EXCEPT ![channel] = @ + 1]
        /\ clients' = W.clients
        /\ sent' = W.sent
        /\ UNCHANGED <<nextUuid, sincePing, sinceCheck>>
        /\ WsFrame

\* setInterval(..., 30000): ping every open client, delete the others
pingInterval ==
    /\ sincePing = PingInterval
    /\ sincePing' = 0
    /\ clients' = [c \in {d \in DOMAIN clients :
                             clients[d].readyState = "OPEN" /\ ~clients[d].faulty} |->
                      [clients[c] EXCEPT !.pinged = TRUE]]
    /\ UNCHANGED <<nextUuid, sent, consumed, sinceCheck>>
    /\ WsFrame

\* setInterval(..., 60000): terminate and delete the clients idle for more than the timeout
inactivityInterval ==
    /\ sinceCheck = CheckInterval
    /\ sinceCheck' = 0
    /\ clients' = [c \in {d \in DOMAIN clients : ~(clients[d].idle > Timeout)} |->
                      clients[c]]
    /\ UNCHANGED <<nextUuid, sent, consumed, sincePing>>
    /\ WsFrame

\* 30 s pass: the intervals fire when they are due, and a responsive peer has answered
\* its ping by then
Tick ==
    /\ sincePing < PingInterval
    /\ sinceCheck < CheckInterval
    /\ \A c \in DOMAIN clients :
          (clients[c].responsive /\ clients[c].readyState = "OPEN") => ~clients[c].pinged
    /\ sincePing' = sincePing + 1
    /\ sinceCheck' = sinceCheck + 1
    /\ clients' = [c \in DOMAIN clients |->
                      [clients[c] EXCEPT !.idle = IF @ > Timeout THEN @ ELSE @ + 1]]
    /\ UNCHANGED <<nextUuid, sent, consumed>>
    /\ WsFrame

----------------------------------------------------------------------------
(* Shutdown: App.gracefulShutdown, Engine.stop, EventProcessor.stop,                  *)
(* KafkaService.disconnect.  The consumer invokes eachMessage for one message at a    *)
(* time; a handler is in flight from its invocation until it returns or throws.       *)

decisionOf(topic, event) ==
    CASE topic = customerEvents -> customerDecision(store, event, nextUuid)
      [] topic = customerItemsEvents -> itemDecision(store, event, nextUuid)
      [] OTHER -> orderDecision(store, event, nextUuid)

failureTypeOf(topic, eventType) ==
    CASE topic = customerEvents -> getFailureEventType(eventType)
      [] topic = customerItemsEvents -> getItemFailureEventType(eventType)
      [] OTHER -> getOrderFailureEventType(eventType)

\* pool.query after pool.end() rejects: the service call throws, the catch block of the
\* handler turns the error into a failure outcome and the tables stay as they are
poolEnded(d, thrownType) ==
    IF d.recognized
    THEN [d EXCEPT !.store = store, !.updateEventType = thrownType, !.success = FALSE,
                   !.data = Undefined,
                   !.error = Err("Cannot use a pool after calling end on the pool", "", "")]
    ELSE d

\* the consumer hands the next message of a partition to the handler of its topic
eachMessage(topic, partition) ==
    /\ consumer = "running"
    /\ inFlight = {}
    /\ Pending(topic, partition)
    /\ Parses(NextMessage(topic, partition))
    /\ inFlight' = {<<topic, partition>>}
    /\ UNCHANGED <<store, log, offset, outcomes, cache, nextUuid, clock, calls, handled,
                   acks, lastRead, redelivered, budget, wsVars, redis, queries, pool,
                   producer, consumer, registered, pc, kafkajs, topics, existingItem>>

\* the handler in flight makes its service call and publishes its outcome:
\* publishEvent throws 'Producer not connected' once the producer is null, and the
\* error leaves the handler
handlerReturns(topic, partition) ==
    LET event == NextMessage(topic, partition)
        called == decisionOf(topic, event)
        d == IF pool = "open" THEN called
             ELSE poolEnded(called, failureTypeOf(topic, event.eventType))
    IN  /\ <<topic, partition>> \in inFlight
        /\ inFlight' = {}
        /\ IF producer = "connected" \/ ~d.recognized
           THEN Handled(topic, PairedTopic(topic), partition, d)
           ELSE Rethrown(topic, partition, d)
        /\ UNCHANGED <<redis, queries, pool, producer, consumer, registered, pc, kafkajs,
                       topics, existingItem>>

\* what a step of the shutdown sequence leaves alone
ShutdownFrame ==
    UNCHANGED <<store, log, offset, outcomes, cache, nextUuid, clock, calls, handled, acks,
                lastRead, redelivered, budget, wsVars, redis, queries, registered, kafkajs,
                topics, existingItem>>

\* SIGINT, SIGTERM or SIGQUIT: server.close, then App.gracefulShutdown
gracefulShutdown ==
    /\ pc = "serving"
    /\ pc' = "engine.stop"
    /\ UNCHANGED <<pool, producer, consumer, inFlight>>
    /\ ShutdownFrame

\* Engine.stop -> EventProcessor.stop: isRunning = false; databaseService.disconnect()
EventProcessor_stop ==
    /\ pc = "engine.stop"
    /\ pool' = "ended"
    /\ pc' = "producer.disconnect"
    /\ UNCHANGED <<producer, consumer, inFlight>>
    /\ ShutdownFrame

\* KafkaService.disconnect: await this.producer.disconnect(); this.producer = null
KafkaService_disconnectProducer ==
    /\ pc = "producer.disconnect"
    /\ producer' = "null"
    /\ pc' = "consumer.disconnect"
    /\ UNCHANGED <<pool, consumer, inFlight>>
    /\ ShutdownFrame

\* KafkaService.disconnect: await this.consumer.disconnect(); this.consumer = null.
\* The consumer stops fetching and waits for the eachMessage that is running.
KafkaService_disconnectConsumer ==
    /\ pc = "consumer.disconnect"
    /\ inFlight = {}
    /\ consumer' = "null"
    /\ pc' = "exit"
    /\ UNCHANGED <<pool, producer, inFlight>>
    /\ ShutdownFrame

\* 'Forced shutdown due to timeout': process.exit(1) thirty seconds after the signal
forcedShutdown ==
    /\ pc \notin {"serving", "exit"}
    /\ pc' = "exit"
    /\ pool' = "ended"
    /\ producer' = "null"
    /\ consumer' = "null"
    /\ inFlight' = {}
    /\ ShutdownFrame

----------------------------------------------------------------------------
(* Start: EventProcessor.start and KafkaService.subscribeToTopic.  KafkaService has   *)
(* one consumer; each subscribeToTopic calls consumer.subscribe and then              *)
(* consumer.run on it.  What kafkajs does with a subscribe and a run on a consumer    *)
(* that already runs depends on the version of the library the build resolves:        *)
(* 2.x rejects the subscribe ('Cannot subscribe to topic while consumer is running'), *)
(* 1.x accepts it without telling the running group, and both ignore the second run   *)
(* with a warning, so the eachMessage of the first run stays the only one.            *)

SubscribeOrder == <<customerEvents, customerItemsEvents, orderEvents>>

\* where start() is: before its i-th subscribeToTopic, or after the last one
Subscribing(i) ==
    CASE i = 1 -> "subscribeToTopic.1"
      [] i = 2 -> "subscribeToTopic.2"
      [] i = 3 -> "subscribeToTopic.3"
      [] OTHER -> "started"

StartFrame ==
    UNCHANGED <<store, log, offset, outcomes, cache, nextUuid, clock, calls, handled, acks,
                lastRead, redelivered, budget, wsVars, redis, queries, producer, inFlight,
                kafkajs, topics, existingItem>>

\* await this.databaseService.connect()
EventProcessor_start ==
    /\ pc = "start"
    /\ pool' = "open"
    /\ pc' = Subscribing(1)
    /\ UNCHANGED <<consumer, registered>>
    /\ StartFrame

\* the i-th call of subscribeToTopic by subscribeToTopics
KafkaService_subscribeToTopic(i) ==
    /\ pc = Subscribing(i)
    /\ IF consumer = "connected"
       THEN /\ consumer' = "running"
            /\ registered' = [topic \in {SubscribeOrder[i]} |-> topic]
            /\ pc' = Subscribing(i + 1)
       ELSE IF kafkajs = 2
       THEN /\ pc' = "failed"
            /\ UNCHANGED <<consumer, registered>>
       ELSE /\ pc' = Subscribing(i + 1)
            /\ UNCHANGED <<consumer, registered>>
    /\ UNCHANGED pool
    /\ StartFrame

\* kafkajs 1.x restarts a consumer that has crashed: the group is made anew with all
\* the topics subscribed by then and with the eachMessage of the first run
consumerRestarts ==
    /\ pc = "started"
    /\ kafkajs = 1
    /\ consumer = "running"
    /\ registered' = [topic \in RequestTopics |-> SubscribeOrder[1]]
    /\ registered' # registered
    /\ UNCHANGED <<pool, consumer, pc>>
    /\ StartFrame

\* the consumer hands a message of the topic to the handler that eachMessage calls
\* for it
dispatch(topic, partition) ==
    /\ consumer = "running"
    /\ topic \in DOMAIN registered
    /\ Pending(topic, partition)
    /\ Parses(NextMessage(topic, partition))
    /\ Handle(topic, PairedTopic(registered[topic]), partition,
              decisionOf(registered[topic], NextMessage(topic, partition)))

----------------------------------------------------------------------------
(* KafkaService.connect: the producer and the consumer connect, then createTopics     *)
(* asks the admin client for the broker's topics and creates the missing ones.  An    *)
(* error of the admin client is caught and logged by createTopics.                    *)

\* admin.createTopics: the topics in `created` are new, each with numPartitions
\* partitions; a topic the broker had stays as it was
createTopics(T, created) ==
    [topic \in DOMAIN T \cup created |->
        IF topic \in DOMAIN T THEN T[topic] ELSE numPartitions]

\* connect(): `connects` is whether the broker accepts the producer and the consumer;
\* `created` are the missing topics the admin client gets created, all of them unless
\* one of its requests fails
KafkaService_connect(connects, created) ==
    /\ pc = "connect"
    /\ created \subseteq RequiredTopics \ DOMAIN topics
    /\ IF connects
       THEN /\ producer' = "connected"
            /\ consumer' = "connected"
            /\ topics' = createTopics(topics, created)
            /\ pc' = "connected"
       ELSE /\ pc' = "failed"
            /\ UNCHANGED <<producer, consumer, topics>>
    /\ UNCHANGED <<store, log, offset, outcomes, cache, nextUuid, clock, calls, handled, acks,
                   lastRead, redelivered, budget, wsVars, redis, queries, pool, inFlight,
                   registered, kafkajs, existingItem>>

----------------------------------------------------------------------------
(* Handlers that overlap.  One consumer hands its messages to eachMessage one at a     *)
(* time; the members of a consumer group, each with its share of the partitions, run   *)
(* beside each other on the same database.  ItemService.updateItemQuantity is a SELECT *)
(* of the row followed by an UPDATE with the new quantity, both through the pool, so   *)
(* a handler is taken in two steps: the reads of its updateItemQuantity calls, and     *)
(* the rest.                                                                           *)

\* the items whose quantity the handler of the event reads and writes back
quantityReads(S, event) ==
    CASE event.eventType = "ITEM_QUANTITY_UPDATED" -> {Get(event.data, "id")} \cap DOMAIN S.items
      [] event.eventType = "ORDER_CANCELLED" ->
           IF Get(event.data, "id") \in DOMAIN S.orders
           THEN {S.orders[event.data.id].items[k].itemId :
                   k \in 1..Len(S.orders[event.data.id].items)} \cap DOMAIN S.items
           ELSE {}
      [] event.eventType = "ORDER_CREATED" ->
           {GetSeq(event.data, "items")[k].itemId : k \in 1..Len(GetSeq(event.data, "items"))}
              \cap DOMAIN S.items
      [] OTHER -> {}

\* the tables as the handler believes them to be: the rows it has read have the
\* quantity it read
believed(S, read) ==
    [S EXCEPT !.items = [i \in DOMAIN S.items |->
                            IF i \in DOMAIN read THEN [S.items[i] EXCEPT !.quantity = read[i]]
                            ELSE S.items[i]]]

\* UPDATE customer_items SET quantity = $newQuantity: the rows the handler has written
\* get its value, every other row is as the database has it
writtenBack(S, read, d) ==
    [d.store EXCEPT !.items =
        [i \in DOMAIN d.store.items |->
            IF i \in DOMAIN read /\ i \in DOMAIN S.items
               /\ ~d.success /\ d.store.items[i].quantity = read[i]
            THEN S.items[i] ELSE d.store.items[i]]]

\* const existingItem = await this.databaseService.getCustomerItemById(id)
databaseService_getCustomerItemById(topic, partition) ==
    LET event == NextMessage(topic, partition)
    IN  /\ Pending(topic, partition)
        /\ Parses(event)
        /\ \A h \in DOMAIN existingItem : h[1] # topic
        /\ existingItem' =
              [h \in DOMAIN existingItem \cup {<<topic, partition>>} |->
                  IF h = <<topic, partition>>
                  THEN [i \in quantityReads(store, event) |-> store.items[i].quantity]
                  ELSE existingItem[h]]
        /\ UNCHANGED <<store, log, offset, outcomes, cache, nextUuid, clock, calls, handled,
                       acks, lastRead, redelivered, budget, wsVars, redis, queries, pool,
                       producer, consumer, inFlight, registered, pc, kafkajs, topics>>

\* await this.databaseService.updateCustomerItem(id, {quantity: newQuantity}) and the
\* rest of the handler, the outcome included
databaseService_updateCustomerItem(topic, partition) ==
    LET event == NextMessage(topic, partition)
        read == existingItem[<<topic, partition>>]
        S == believed(store, read)
        d == CASE topic = customerEvents -> customerDecision(S, event, nextUuid)
               [] topic = customerItemsEvents -> itemDecision(S, event, nextUuid)
               [] OTHER -> orderDecision(S, event, nextUuid)
    IN  /\ <<topic, partition>> \in DOMAIN existingItem
        /\ Handled(topic, PairedTopic(topic), partition,
                   [d EXCEPT !.store = writtenBack(store, read, d)])
        /\ existingItem' = [h \in DOMAIN existingItem \ {<<topic, partition>>} |->
                               existingItem[h]]
        /\ UNCHANGED <<redis, queries, pool, producer, consumer, inFlight, registered, pc,
                       kafkajs, topics>>

----------------------------------------------------------------------------
(* Initial states: a database that earlier requests have filled.  Customers 1 and 2,   *)
(* item 3 of customer 1, item 4 of customer 2, order 5 of customer 1 for one unit of   *)
(* item 3; 9 is a well-formed id of nothing, 0 an id that is not a uuid, 8 a            *)
(* correlation id chosen by a client.  Fresh uuids start at 10.                         *)

Line(itemId, quantity) == [itemId |-> itemId, quantity |-> quantity]

Seed(status) ==
    [customers |-> (1 :> [name |-> <<"n">>, email |-> <<"a">>, status |-> "ACTIVE"]) @@
                   (2 :> [name |-> <<"m">>, email |-> <<"c">>, status |-> "ACTIVE"]),
     items |-> (3 :> [customerId |-> 1, price |-> 2500, quantity |-> 2, status |-> "ACTIVE"]) @@
               (4 :> [customerId |-> 2, price |-> 1000, quantity |-> 1, status |-> "ACTIVE"]),
     orders |-> (5 :> [customerId |-> 1, status |-> status,
                       items |-> <<OrderItem(3, 1, 2500)>>,
                       totalAmount |-> 3750, taxAmount |-> 250, shippingCost |-> 1000,
                       discount |-> 0, paymentStatus |-> "PENDING", priority |-> "NORMAL",
                       notes |-> <<>>, deliveryDate |-> Undefined])]

NoRead == ReadResponse(<<>>, 0, UndefinedStr, "", <<>>, <<>>, FALSE)

Quiet ==
    /\ log = [t \in RequestTopics |-> [p \in Partitions |-> <<>>]]
    /\ offset = [t \in RequestTopics |-> [p \in Partitions |-> 0]]
    /\ outcomes = [t \in OutcomeTopics |-> <<>>]
    /\ cache = <<>>
    /\ nextUuid = 10
    /\ clock = 0
    /\ calls = [t \in RequestTopics |-> <<>>]
    /\ handled = <<>>
    /\ acks = <<>>
    /\ lastRead = NoRead
    /\ redelivered = 0
    /\ clients = <<>>
    /\ sent = <<>>
    /\ consumed = [channel \in OutcomeTopics |-> 0]
    /\ sincePing = 0
    /\ sinceCheck = 0
    /\ redis = "ready"
    /\ queries = <<>>

\* the process serves: start() has returned with each topic's messages going to the
\* topic's handler
Serving ==
    /\ pool = "open"
    /\ producer = "connected"
    /\ consumer = "running"
    /\ inFlight = {}
    /\ registered = [topic \in RequestTopics |-> topic]
    /\ pc = "serving"
    /\ kafkajs = 2
    /\ topics = [topic \in RequiredTopics |-> numPartitions]
    /\ existingItem = <<>>

Idle == Quiet /\ Serving

Started == Idle /\ budget = MaxEvents

Init == store = Seed("PENDING") /\ Started

\* the headers of two clients; the second one sends an x-correlation-id of its own
Alice == [userId |-> "u1", tenantId |-> "t1", correlationId |-> Undefined]
Bob == [userId |-> "u2", tenantId |-> "t2", correlationId |-> 8]
Carol == [userId |-> "u3", tenantId |-> UndefinedStr, correlationId |-> Undefined]
Headers == {Alice, Bob}

Consume ==
    \E partition \in Partitions :
        \/ handleCustomerEvent(partition)
        \/ handleCustomerItemEvent(partition)
        \/ handleOrderEvent(partition)

Rebalance == \E topic \in RequestTopics, partition \in Partitions : Redeliver(topic, partition)

CustomerRequests ==
    \E partition \in Partitions :
        \/ \E email \in {<<"a">>, <<"b">>} :
              CustomerController_createCustomer(Alice, <<"n">>, email, partition)
        \/ CustomerController_updateCustomer(Alice, 2, [name |-> <<"k">>], partition)
        \/ CustomerController_deleteCustomer(Alice, 1, partition)
        \/ CachedCustomerController_createCustomer(Alice,
                [name |-> <<"n">>, email |-> <<"b">>], partition)
        \/ CachedCustomerController_updateCustomer(Bob, 2, [name |-> <<"k">>], partition)
        \/ CachedCustomerController_deleteCustomer(Bob, 2, partition)

ItemRequests ==
    \E partition \in Partitions :
        \/ itemController_createCustomerItem(Alice, 1, 1000, 1, partition)
        \/ itemController_updateCustomerItem(Alice, 3, [price |-> 500], partition)
        \/ itemController_deleteCustomerItem(Alice, 3, partition)
        \/ itemController_updateItemQuantity(Alice, 3, 1, "set", partition)

OrderRequests ==
    \E headers \in Headers, partition \in Partitions :
        \/ OrderController_createOrder(headers, 1, <<Line(3, 1)>>, partition)
        \/ \E status \in {"CONFIRMED", "SHIPPED"} :
              OrderController_updateOrder(headers, 5, [status |-> status], partition)
        \/ OrderController_cancelOrder(headers, 5, "", partition)
        \/ \E id \in {5, 9} : OrderController_deleteOrder(headers, id, partition)

CachedOrderRequests ==
    \E partition \in Partitions :
        \/ CachedOrderController_createOrder(Alice,
                [customerId |-> 1, items |-> <<Line(3, 1)>>], partition)
        \/ CachedOrderController_updateOrder(Bob, 5, [status |-> "CONFIRMED"], partition)
        \/ CachedOrderController_cancelOrder(Bob, 5, partition)
        \/ CachedOrderController_deleteOrder(Bob, 5, partition)

\* the whole write path while the consumer group is stable: every message is handed
\* to its handler once
Next == CustomerRequests \/ ItemRequests \/ OrderRequests \/ CachedOrderRequests \/ Consume

Spec == Init /\ [][Next]_vars

\* the lines of the orders customer 1 asks for: item 3 is theirs and has two units,
\* item 4 is another customer's, 9 is no item
OrderLines ==
    {<<Line(3, 1)>>, <<Line(3, 2)>>, <<Line(3, 3)>>, <<Line(3, 1), Line(4, 1)>>,
     <<Line(3, 1), Line(9, 1)>>, <<Line(3, 1), Line(3, 2)>>}

\* create requests under at-least-once delivery: a rebalance hands a message to its
\* handler again
CreateRequests ==
    \E partition \in Partitions :
        \/ \E email \in {<<"a">>, <<"b">>} :
              CustomerController_createCustomer(Alice, <<"n">>, email, partition)
        \/ \E customerId \in {1, 9} :
              itemController_createCustomerItem(Alice, customerId, 1000, 1, partition)
        \/ \E items \in OrderLines : OrderController_createOrder(Alice, 1, items, partition)

AtLeastOnceNext == CreateRequests \/ Consume \/ Rebalance

AtLeastOnceSpec == Init /\ [][AtLeastOnceNext]_vars

\* reads through the cache beside the writes that change what they read
CacheKeys == {getItemKey(3), getCustomerKey(2)}

CacheNext ==
    \/ \E partition \in Partitions :
          \/ \E quantity \in {1, 5} :
                itemController_updateItemQuantity(Alice, 3, quantity, "set", partition)
          \/ itemController_updateCustomerItem(Alice, 3, [price |-> 500], partition)
          \/ \E itemId \in {3, 9} :
                itemController_getCustomerItemById(Alice, itemId, partition)
          \/ CustomerController_deleteCustomer(Alice, 2, partition)
          \/ CachedCustomerController_updateCustomer(Bob, 2, [name |-> <<"k">>], partition)
          \/ handleCustomerItemEvent(partition)
          \/ handleCustomerEvent(partition)
    \/ CachedCustomerController_getCustomerById(2)
    \/ \E key \in CacheKeys : CacheExpire(key)

CacheSpec == Init /\ [][CacheNext]_vars

\* by-id reads of the three controllers through a connection to Redis that comes and
\* goes, beside writes that change the rows read: 9 is the id of no entity
ReadKeys == {getCustomerKey(2), getItemKey(3), getOrderKey(5)}

ReadNext ==
    \/ \E customerId \in {2, 9} : CachedCustomerController_getCustomerById(customerId)
    \/ \E orderId \in {5, 9} : CachedOrderController_getOrderById(orderId)
    \/ \E partition \in Partitions :
          \/ \E itemId \in {3, 9} :
                itemController_getCustomerItemById(Alice, itemId, partition)
          \/ CustomerController_updateCustomer(Alice, 2, [name |-> <<"k">>], partition)
          \/ OrderController_updateOrder(Alice, 5, [status |-> "CONFIRMED"], partition)
          \/ itemController_updateItemQuantity(Alice, 3, 1, "set", partition)
          \/ handleCustomerEvent(partition)
          \/ handleCustomerItemEvent(partition)
          \/ handleOrderEvent(partition)
    \/ redis_error
    \/ redis_connect
    \/ \E key \in ReadKeys : CacheExpire(key)

ReadSpec == Init /\ [][ReadNext]_vars

\* list and by-id reads of items and orders beside the writes that change them
ListNext ==
    \/ \E partition \in Partitions :
          \/ \E customerId \in {1, 9} :
                itemController_getCustomerItems(Alice, customerId, 1, 10, "", "", partition)
          \/ itemController_getCustomerItemById(Alice, 3, partition)
          \/ itemController_updateItemQuantity(Alice, 3, 1, "set", partition)
          \/ OrderController_updateOrder(Alice, 5, [status |-> "CONFIRMED"], partition)
          \/ handleCustomerItemEvent(partition)
          \/ handleOrderEvent(partition)
    \/ itemController_getAllItems(1, 10, "", "", "")
    \/ cacheOrdersList(1, 10, "", "1", "")
    \/ CachedOrderController_getOrderById(5)

ListSpec == Init /\ [][ListNext]_vars

\* list queries with every combination of empty and non-empty filters; "YQ==" is a
\* category, "a" a search
Filters == {"", "YQ=="}
Searches == {"", "a"}

KeyNext ==
    \/ \E partition \in Partitions, category \in Filters, search \in Searches :
          itemController_getCustomerItems(Alice, 1, 1, 10, category, search, partition)
    \/ \E category \in Filters, search \in Searches :
          itemController_getAllItems(1, 10, category, search, "")
    \/ \E status \in {"", "PENDING"}, customerId \in {"", "1"} :
          cacheOrdersList(1, 10, status, customerId, "")

KeySpec == Init /\ [][KeyNext]_vars

\* by-id queries beside the writes: 2, 3 and 5 are rows, 9 is no row, 0 stands for a
\* path parameter that is no uuid
Lookups ==
    \E partition \in Partitions :
        \/ \E customerId \in {2, 9, 0} :
              CustomerController_getCustomerById(Alice, customerId, partition)
        \/ \E itemId \in {3, 9, 0} :
              itemController_getCustomerItemByIdQuery(Alice, itemId, partition)
        \/ \E orderId \in {5, 9, 0} :
              OrderController_getOrderById(Alice, orderId, partition)

Malformed ==
    \E partition \in Partitions :
        \/ CustomerController_updateCustomer(Alice, 0, [name |-> <<"k">>], partition)
        \/ itemController_updateItemQuantity(Alice, 0, 1, "set", partition)
        \/ OrderController_cancelOrder(Alice, 0, "", partition)

LookupNext ==
    CustomerRequests \/ ItemRequests \/ OrderRequests \/ Lookups \/ Malformed \/ Consume

LookupSpec == Init /\ [][LookupNext]_vars

\* an entity is deleted, asked for and deleted again: customer 2, item 3, order 5
DeleteInit == store = Seed("PENDING") /\ Idle /\ budget = MaxScenarioEvents

DeleteNext ==
    \/ \E partition \in Partitions :
          \/ CustomerController_deleteCustomer(Alice, 2, partition)
          \/ CustomerController_getCustomerById(Alice, 2, partition)
          \/ itemController_deleteCustomerItem(Alice, 3, partition)
          \/ itemController_getCustomerItemByIdQuery(Alice, 3, partition)
          \/ OrderController_deleteOrder(Alice, 5, partition)
          \/ OrderController_getOrderById(Alice, 5, partition)
    \/ Consume

DeleteSpec == DeleteInit /\ [][DeleteNext]_vars

\* a quantity update of item 3 beside an order that takes a unit of it or a
\* cancellation that gives one back, their handlers overlapping
OverlapNext ==
    \/ \E partition \in Partitions :
          \/ \E operation \in {"add", "subtract"} :
                itemController_updateItemQuantity(Alice, 3, 1, operation, partition)
          \/ OrderController_createOrder(Alice, 1, <<Line(3, 1)>>, partition)
          \/ OrderController_cancelOrder(Alice, 5, "", partition)
    \/ \E topic \in {customerItemsEvents, orderEvents}, partition \in Partitions :
          \/ databaseService_getCustomerItemById(topic, partition)
          \/ databaseService_updateCustomerItem(topic, partition)

OverlapSpec == Init /\ [][OverlapNext]_vars

\* the life of an order: order 5 in any status, then updates and cancellations
OrderInit == \E status \in OrderStatus : store = Seed(status) /\ Started

OrderUpdates == {[status |-> status] : status \in OrderStatus} \cup {[notes |-> <<"later">>]}

OrderNext ==
    \E partition \in Partitions :
        \/ \E updateData \in OrderUpdates :
              OrderController_updateOrder(Alice, 5, updateData, partition)
        \/ \E id \in {5, 9} : OrderController_cancelOrder(Alice, id, "", partition)
        \/ handleOrderEvent(partition)

OrderSpec == OrderInit /\ [][OrderNext]_vars

\* Orders as a producer builds them (the Order of the service's signature, with id and
\* totalAmount): one that agrees with the tables, one for five units of another
\* customer's item at a total of 1.00
PrebuiltOrders ==
    {[id |-> 9, customerId |-> 1, status |-> "PENDING", orderDate |-> 0,
      items |-> <<OrderItem(3, 1, 2500)>>, totalAmount |-> 3750, taxAmount |-> 250,
      shippingCost |-> 1000, discount |-> 0],
     [id |-> 9, customerId |-> 1, status |-> "PENDING", orderDate |-> 0,
      items |-> <<OrderItem(4, 5, 1000)>>, totalAmount |-> 100, taxAmount |-> 0,
      shippingCost |-> 0, discount |-> 0]}

\* order creation from payloads of both shapes
OrderCreateNext ==
    \E partition \in Partitions :
        \/ \E items \in OrderLines \cup {<<Line(3, 1), Line(3, 1)>>} :
              OrderController_createOrder(Alice, 1, items, partition)
        \/ \E order \in PrebuiltOrders :
              KafkaService_publishOrderEvent("ORDER_CREATED", order, Metadata(8, Bob),
                                             partition)
        \/ handleOrderEvent(partition)

OrderCreateSpec == Init /\ [][OrderCreateNext]_vars

\* Scenario A on empty tables: a customer is created (its id is 10 when its request is
\* the first), an item of that customer with price 10.00 and quantity 5 (id 13), and an
\* order of that customer for two units of the item
EmptyStore == [customers |-> <<>>, items |-> <<>>, orders |-> <<>>]

ScenarioInit == store = EmptyStore /\ Idle /\ budget = MaxScenarioEvents

ScenarioNext ==
    \/ \E partition \in Partitions :
          \/ CustomerController_createCustomer(Alice, <<"n">>, <<"a">>, partition)
          \/ itemController_createCustomerItem(Alice, 10, 1000, 5, partition)
          \/ OrderController_createOrder(Alice, 10, <<Line(13, 2)>>, partition)
    \/ Consume

ScenarioSpec == ScenarioInit /\ [][ScenarioNext]_vars

\* the operations that change an item's quantity: item 3 of customer 1 has two units
InventoryNext ==
    \E partition \in Partitions :
        \/ \E quantity \in 0..3, operation \in {"set", "add", "subtract"} :
              itemController_updateItemQuantity(Alice, 3, quantity, operation, partition)
        \/ \E quantity \in 0..1 :
              itemController_createCustomerItem(Alice, 1, 1000, quantity, partition)
        \/ itemController_updateCustomerItem(Alice, 3, [quantity |-> 1], partition)
        \/ \E items \in {<<Line(3, 1)>>, <<Line(3, 2), Line(3, 1)>>} :
              OrderController_createOrder(Alice, 1, items, partition)
        \/ OrderController_cancelOrder(Alice, 5, "", partition)
        \/ handleCustomerItemEvent(partition)
        \/ handleOrderEvent(partition)

InventorySpec == Init /\ [][InventoryNext]_vars

\* Scenario D: item 3 has any quantity up to MaxQuantity; a client asks to add 5 to it
\* and then to subtract 3 from it, each request on any partition
QuantityInit ==
    \E quantity \in 0..MaxQuantity :
        store = [Seed("PENDING") EXCEPT !.items[3].quantity = quantity] /\ Started

QuantityNext ==
    \E partition \in Partitions :
        \/ \E headers \in Headers :
              \/ acks = <<>> /\
                    itemController_updateItemQuantity(headers, 3, 5, "add", partition)
              \/ Len(acks) = 1 /\
                    itemController_updateItemQuantity(headers, 3, 3, "subtract", partition)
        \/ handleCustomerItemEvent(partition)

QuantitySpec == QuantityInit /\ [][QuantityNext]_vars

\* requests while the process serves, the consumer at work, and a shutdown signal at
\* any moment
ShutdownNext ==
    \/ \E partition \in Partitions :
          \/ pc = "serving" /\
                CustomerController_updateCustomer(Alice, 2, [name |-> <<"k">>], partition)
          \/ pc = "serving" /\
                itemController_updateItemQuantity(Alice, 3, 1, "add", partition)
          \/ pc = "serving" /\
                OrderController_updateOrder(Alice, 5, [status |-> "CONFIRMED"], partition)
          \/ \E topic \in RequestTopics :
                eachMessage(topic, partition) \/ handlerReturns(topic, partition)
    \/ gracefulShutdown
    \/ EventProcessor_stop
    \/ KafkaService_disconnectProducer
    \/ KafkaService_disconnectConsumer
    \/ forcedShutdown

ShutdownSpec == Init /\ [][ShutdownNext]_vars

\* the process starts; clients publish to the three request topics meanwhile
StartInit ==
    /\ store = Seed("PENDING")
    /\ Quiet
    /\ budget = MaxEvents
    /\ pool = "idle"
    /\ producer = "connected"
    /\ consumer = "connected"
    /\ inFlight = {}
    /\ registered = <<>>
    /\ pc = "start"
    /\ kafkajs \in {1, 2}
    /\ topics = [topic \in RequiredTopics |-> numPartitions]
    /\ existingItem = <<>>

StartNext ==
    \/ EventProcessor_start
    \/ \E i \in 1..3 : KafkaService_subscribeToTopic(i)
    \/ consumerRestarts
    \/ \E partition \in Partitions :
          \/ CustomerController_updateCustomer(Alice, 2, [name |-> <<"k">>], partition)
          \/ itemController_updateItemQuantity(Alice, 3, 1, "add", partition)
          \/ OrderController_updateOrder(Alice, 5, [status |-> "CONFIRMED"], partition)
          \/ \E topic \in RequestTopics : dispatch(topic, partition)

StartSpec == StartInit /\ [][StartNext]_vars

\* the process connects to a broker that has any of the required topics already, each
\* with one partition
ConnectInit ==
    /\ store = Seed("PENDING")
    /\ Quiet
    /\ budget = MaxEvents
    /\ pool = "idle"
    /\ producer = "null"
    /\ consumer = "null"
    /\ inFlight = {}
    /\ registered = <<>>
    /\ pc = "connect"
    /\ kafkajs = 2
    /\ \E existing \in SUBSET RequiredTopics : topics = [topic \in existing |-> 1]
    /\ existingItem = <<>>

ConnectNext ==
    \E connects \in BOOLEAN, created \in SUBSET RequiredTopics :
        KafkaService_connect(connects, created)

ConnectSpec == ConnectInit /\ [][ConnectNext]_vars

\* outcome events of three tenants' requests broadcast to WebSocket clients
ClientIds == 1..MaxConnections

WsInit == store = Seed("PENDING") /\ Idle /\ budget = MaxBroadcasts

Subscriptions ==
    {Subscription({}, {customerUpdates}),
     Subscription({"CUSTOMER_CREATED_SUCCESS"}, {customerUpdates}),
     Subscription({}, {itemUpdates})}

Subscribes == {[type |-> "SUBSCRIBE", data |-> sub] : sub \in Subscriptions}

WsNext ==
    \/ \E partition \in Partitions :
          \/ \E headers \in {Alice, Bob, Carol}, email \in {<<"a">>, <<"b">>} :
                CustomerController_createCustomer(headers, <<"n">>, email, partition)
          \/ handleCustomerEvent(partition)
    \/ \E headers \in {Alice, Carol} : connection(headers)
    \/ \E clientId \in ClientIds :
          \/ \E message \in Subscribes : ws_message(clientId, message)
          \/ peerCloses(clientId)
    \/ \E channel \in OutcomeTopics : handleKafkaUpdate(channel)

WsSpec == WsInit /\ [][WsNext]_vars

\* deliveries to sockets that close or break
DeliveryNext ==
    \/ \E partition \in Partitions :
          \/ CustomerController_createCustomer(Alice, <<"n">>, <<"b">>, partition)
          \/ handleCustomerEvent(partition)
    \/ connection(Alice)
    \/ \E clientId \in ClientIds :
          \/ ws_message(clientId, [type |-> "SUBSCRIBE",
                                    data |-> Subscription({}, {customerUpdates})])
          \/ ws_close(clientId)
          \/ peerCloses(clientId)
          \/ socketBreaks(clientId)
    \/ handleKafkaUpdate(customerUpdates)

DeliverySpec == WsInit /\ [][DeliveryNext]_vars

\* connections that subscribe to one or two channels, unsubscribe from one, close or
\* fail, while the outcome of a customer or an item request is broadcast
ChannelSubscriptions ==
    {Subscription({}, {customerUpdates}),
     Subscription({}, {customerUpdates, itemUpdates}),
     Subscription({"CUSTOMER_CREATED_SUCCESS"}, {customerUpdates})}

Unsubscribes ==
    {[type |-> "UNSUBSCRIBE", data |-> Subscription({}, {channel})] :
        channel \in {customerUpdates, itemUpdates}}

SubscribeNext ==
    \/ \E partition \in Partitions :
          \/ CustomerController_createCustomer(Alice, <<"n">>, <<"b">>, partition)
          \/ itemController_updateItemQuantity(Alice, 3, 1, "add", partition)
          \/ handleCustomerEvent(partition)
          \/ handleCustomerItemEvent(partition)
    \/ connection(Alice)
    \/ \E clientId \in ClientIds :
          \/ \E sub \in ChannelSubscriptions :
                ws_message(clientId, [type |-> "SUBSCRIBE", data |-> sub])
          \/ \E message \in Unsubscribes : ws_message(clientId, message)
          \/ ws_close(clientId)
          \/ ws_error(clientId)
    \/ \E channel \in OutcomeTopics : handleKafkaUpdate(channel)

SubscribeSpec == WsInit /\ [][SubscribeNext]_vars

\* the health monitor beside peers that answer its pings or have gone silent.  The
\* intervals fire when they are due, time passes, and a responsive peer answers a ping.
HealthNext ==
    \/ \E partition \in Partitions :
          \/ CustomerController_createCustomer(Alice, <<"n">>, <<"b">>, partition)
          \/ handleCustomerEvent(partition)
    \/ connection(Alice)
    \/ \E clientId \in ClientIds :
          \/ ws_message(clientId, [type |-> "SUBSCRIBE",
                                    data |-> Subscription({}, {customerUpdates})])
          \/ ws_pong(clientId)
          \/ peerGoesSilent(clientId)
    \/ handleKafkaUpdate(customerUpdates)
    \/ pingInterval
    \/ inactivityInterval
    \/ Tick

HealthSpec ==
    /\ WsInit
    /\ [][HealthNext]_vars
    /\ WF_vars(Tick)
    /\ WF_vars(pingInterval)
    /\ WF_vars(inactivityInterval)
    /\ \A clientId \in ClientIds : WF_vars(ws_pong(clientId))

\* a request topic that also carries messages of a producer outside the service, read
\* by a consumer whose handler may fail to publish the outcome
foreignProduce(topic, partition) ==
    /\ Accepting(topic, partition)
    /\ log' = publishEvent(log, topic, Garbled(nextUuid, clock), partition)
    /\ nextUuid' = nextUuid + 1
    /\ clock' = clock + 1
    /\ budget' = budget - 1
    /\ UNCHANGED <<cache, acks>>
    /\ WriteFrame

ConsumeNext ==
    \E partition \in Partitions :
        \/ \E email \in {<<"a">>, <<"b">>} :
              CustomerController_createCustomer(Alice, <<"n">>, email, partition)
        \/ foreignProduce(customerEvents, partition)
        \/ handleCustomerEvent(partition)
        \/ handleUnparseable(customerEvents, partition)
        \/ handleCustomerEventPublishFails(partition)

ConsumeSpec == Init /\ [][ConsumeNext]_vars

\* order requests while the producer may be disconnected or a send rejected
PublishNext ==
    \/ \E partition \in Partitions :
          \/ \E items \in OrderLines :
                OrderController_createOrder(Alice, 1, items, partition)
          \/ CachedOrderController_createOrder(Bob,
                  [customerId |-> 1, items |-> <<Line(3, 1)>>], partition)
          \/ handleOrderEvent(partition)
    \/ \E error \in PublishErrors :
          \/ OrderController_createOrderPublishFails(error)
          \/ CachedOrderController_createOrderPublishFails(error)

PublishSpec == Init /\ [][PublishNext]_vars

\* cancellations while the database may fail in the middle of one: orders of one and of
\* two lines are created and cancelled (13 and 15 are the ids the service gives them)
CancelNext ==
    \E partition \in Partitions :
        \/ \E items \in {<<Line(3, 1)>>, <<Line(3, 1), Line(3, 1)>>} :
              OrderController_createOrder(Alice, 1, items, partition)
        \/ \E id \in {5, 13, 15} : OrderController_cancelOrder(Alice, id, "", partition)
        \/ handleOrderEvent(partition)
        \/ \E healthy \in 0..1 : handleOrderEventOutage(partition, healthy)

CancelSpec == Init /\ [][CancelNext]_vars

----------------------------------------------------------------------------
(* Request/outcome pairing *)

\* the event types that are cases of a handler's switch, per request topic
RecognizedTypes ==
    [t \in RequestTopics |->
        CASE t = customerEvents ->
               {"CUSTOMER_CREATED", "CUSTOMER_UPDATED", "CUSTOMER_DELETED",
                "CUSTOMER_REQUESTED", "CUSTOMERS_REQUESTED"}
          [] t = customerItemsEvents ->
               {"ITEM_CREATED", "ITEM_UPDATED", "ITEM_DELETED", "ITEM_REQUESTED",
                "ITEMS_REQUESTED", "ALL_ITEMS_REQUESTED", "ITEM_QUANTITY_UPDATED"}
          [] OTHER ->
               {"ORDER_CREATED", "ORDER_UPDATED", "ORDER_CANCELLED", "ORDER_REQUESTED",
                "ORDER_DELETED"}]

\* the request events published so far, each with its topic
Published ==
    UNION {{[topic |-> t, event |-> log[t][p][i]] : i \in 1..Len(log[t][p])} :
            t \in RequestTopics, p \in Partitions}

\* the outcome events on a topic that answer the event, in the order of publication
OutcomesFor(topic, eventId) ==
    SelectSeq(outcomes[topic], LAMBDA o : o.data.originalEvent.eventId = eventId)

\* C1: every recognized request event a handler was handed has, per delivery, exactly
\* one outcome event on the outcome topic paired with its request topic, carrying the
\* request's eventId as originalEvent.eventId, and none on any other outcome topic,
\* whether the service call succeeded, returned null/false or threw.
C1_OneOutcomePerRequest ==
    \A m \in Published :
        m.event.eventType \in RecognizedTypes[m.topic] =>
            /\ Len(OutcomesFor(PairedTopic(m.topic), m.event.eventId))
                  = Delivered(m.event.eventId)
            /\ \A u \in OutcomeTopics \ {PairedTopic(m.topic)} :
                  OutcomesFor(u, m.event.eventId) = <<>>

\* an order update that threw and an order delete that found nothing have both been
\* answered on order-updates
C1_Witness ==
    /\ \E i \in 1..Len(outcomes[orderUpdates]) :
          /\ outcomes[orderUpdates][i].eventType = "ORDER_UPDATED_FAILED"
          /\ outcomes[orderUpdates][i].data.error.from = "PENDING"
    /\ \E i \in 1..Len(outcomes[orderUpdates]) :
          /\ outcomes[orderUpdates][i].eventType = "ORDER_DELETE_FAILED"
          /\ outcomes[orderUpdates][i].data.error.msg = "Order not found or could not be deleted"
    /\ \A m \in Published : Delivered(m.event.eventId) = 1

\* the request event an outcome answers
RequestOf(o) == CHOOSE m \in Published : m.event.eventId = o.data.originalEvent.eventId

\* C3: every outcome event carries the correlationId of the request event that caused
\* it, both in metadata.correlationId and in originalEvent.correlationId, and the
\* request's tenantId and userId unchanged.
C3_CorrelationStable ==
    \A t \in OutcomeTopics : \A i \in 1..Len(outcomes[t]) :
        LET o == outcomes[t][i]
            request == RequestOf(o).event
        IN  /\ o.metadata.correlationId = request.metadata.correlationId
            /\ o.data.originalEvent.correlationId = request.metadata.correlationId
            /\ o.metadata.tenantId = request.metadata.tenantId
            /\ o.metadata.userId = request.metadata.userId

\* two requests of different tenants and users have been answered
C3_Witness ==
    \E t \in OutcomeTopics : \E i, j \in 1..Len(outcomes[t]) :
        /\ outcomes[t][i].metadata.tenantId = "t1"
        /\ outcomes[t][j].metadata.tenantId = "t2"
        /\ outcomes[t][i].metadata.correlationId # outcomes[t][j].metadata.correlationId

\* no message is waiting for its handler
Quiescent == \A t \in RequestTopics, p \in Partitions : ~Pending(t, p)

\* the request event a response acknowledges
Acknowledged(ack) == CHOOSE m \in Published : m.event.eventId = ack.eventId

\* C2: once every published request has been handled, each write request that was
\* answered with 202 has an outcome event on the paired outcome topic whose
\* metadata.correlationId is the correlationId of the 202 body.
C2_AcceptedRequestHasOutcome ==
    Quiescent =>
        \A i \in 1..Len(acks) :
            acks[i].code = 202 =>
                \E j \in 1..Len(outcomes[PairedTopic(Acknowledged(acks[i]).topic)]) :
                    outcomes[PairedTopic(Acknowledged(acks[i]).topic)][j]
                        .metadata.correlationId = acks[i].correlationId

\* C4: the domain-service calls a handler makes for one entity are in the order in
\* which the entity's request events were published.
C4_CallsInPublishOrder ==
    \A t \in RequestTopics : \A i, j \in 1..Len(calls[t]) :
        (i < j /\ calls[t][i].entity = calls[t][j].entity) =>
            calls[t][i].timestamp <= calls[t][j].timestamp

\* the create events, per request topic
CreateTypes == {"CUSTOMER_CREATED", "ITEM_CREATED", "ORDER_CREATED"}

\* C9: when a create event has been delivered twice, its second outcome is a failure
\* and at most one entity came of it.
C9_RedeliveredCreateFails ==
    \A m \in Published :
        LET answers == OutcomesFor(PairedTopic(m.topic), m.event.eventId)
        IN  (m.event.eventType \in CreateTypes /\ Len(answers) >= 2) =>
                /\ ~answers[2].data.success
                /\ Cardinality({answers[k].data.data :
                                  k \in {n \in 1..Len(answers) : answers[n].data.success}}) <= 1

\* C9, the stock: handing an order-create event to the handler again leaves every
\* item's quantity as it was.
C9_RedeliveredOrderKeepsStock ==
    [][\A p \in Partitions :
          (/\ Pending(orderEvents, p)
           /\ NextMessage(orderEvents, p).eventType = "ORDER_CREATED"
           /\ Delivered(NextMessage(orderEvents, p).eventId) >= 1
           /\ offset'[orderEvents][p] = offset[orderEvents][p] + 1)
          => store'.items = store.items]_vars

----------------------------------------------------------------------------
(* Orders *)

\* the handler of order-events takes the next message of the partition in this step
Handling(p, eventType) ==
    /\ Pending(orderEvents, p)
    /\ NextMessage(orderEvents, p).eventType = eventType
    /\ offset'[orderEvents][p] = offset[orderEvents][p] + 1

\* the outcome the step publishes
Answer == Last(outcomes[orderUpdates])'

\* the errors of the validation of an order's items
ItemValidationErrors ==
    {"Item not found", "Item does not belong to customer", "Insufficient quantity"}

\* C6: an order creation that fails the validation of one of its items writes no
\* order and no order line and changes no item's quantity.
C6_FailedCreateWritesNothing ==
    [][\A p \in Partitions :
          (Handling(p, "ORDER_CREATED") /\ Answer.data.error.msg \in ItemValidationErrors)
          => store' = store]_vars

\* the transition table of the specification, as pairs <<from, to>>
TransitionTable ==
    {<<"DRAFT", "PENDING">>, <<"DRAFT", "CANCELLED">>,
     <<"PENDING", "CONFIRMED">>, <<"PENDING", "CANCELLED">>,
     <<"CONFIRMED", "PROCESSING">>, <<"CONFIRMED", "CANCELLED">>,
     <<"PROCESSING", "PACKED">>, <<"PROCESSING", "CANCELLED">>,
     <<"PACKED", "SHIPPED">>, <<"SHIPPED", "OUT_FOR_DELIVERY">>,
     <<"OUT_FOR_DELIVERY", "DELIVERED">>, <<"OUT_FOR_DELIVERY", "FAILED">>,
     <<"DELIVERED", "RETURNED">>, <<"RETURNED", "REFUNDED">>,
     <<"FAILED", "CANCELLED">>, <<"FAILED", "PENDING">>}

\* C7: an update that asks for a status the table does not allow from the stored
\* status (a self-transition and a transition out of CANCELLED or REFUNDED included)
\* is answered with a failure whose error names both statuses, and nothing stored
\* changes.
C7_InvalidTransitionRejected ==
    [][\A p \in Partitions :
          LET data == NextMessage(orderEvents, p).data
          IN  (/\ Handling(p, "ORDER_UPDATED")
               /\ data.id \in DOMAIN store.orders
               /\ "status" \in DOMAIN data
               /\ <<store.orders[data.id].status, data.status>> \notin TransitionTable)
              => /\ store' = store
                 /\ ~Answer.data.success
                 /\ Answer.eventType = "ORDER_UPDATED_FAILED"
                 /\ Answer.data.error.from = store.orders[data.id].status
                 /\ Answer.data.error.to = data.status]_vars

\* updates out of CANCELLED and of a status to itself have been refused
C7_Witness ==
    /\ \E i \in 1..Len(outcomes[orderUpdates]) :
          /\ outcomes[orderUpdates][i].data.error.msg = "Invalid status transition"
          /\ outcomes[orderUpdates][i].data.error.from = "CANCELLED"
    /\ \E i \in 1..Len(outcomes[orderUpdates]) :
          /\ outcomes[orderUpdates][i].data.error.msg = "Invalid status transition"
          /\ outcomes[orderUpdates][i].data.error.from = outcomes[orderUpdates][i].data.error.to

\* C8: every change of an order's stored status is an edge of the transition table;
\* so the status of a CANCELLED or REFUNDED order never changes.
C8_StatusMovesAlongTable ==
    [][\A o \in DOMAIN store.orders \cap DOMAIN store'.orders :
          store'.orders[o].status # store.orders[o].status
          => <<store.orders[o].status, store'.orders[o].status>> \in TransitionTable]_vars

\* an order has been moved by an update and then cancelled
C8_Witness ==
    /\ \E i \in 1..Len(outcomes[orderUpdates]) :
          outcomes[orderUpdates][i].eventType = "ORDER_UPDATED_SUCCESS"
    /\ \E i \in 1..Len(outcomes[orderUpdates]) :
          outcomes[orderUpdates][i].eventType = "ORDER_CANCELLED_SUCCESS"
    /\ store.orders[5].status = "CANCELLED"

Cancellable == {"DRAFT", "PENDING", "CONFIRMED", "PROCESSING"}

\* C10: a cancel succeeds only for an order whose stored status is DRAFT, PENDING,
\* CONFIRMED or PROCESSING; for an order in any other status it is answered with a
\* failure and an error, and the order's status and every item's quantity stay.
C10_CancelOnlyWhenCancellable ==
    [][\A p \in Partitions :
          LET id == NextMessage(orderEvents, p).data.id
          IN  Handling(p, "ORDER_CANCELLED") =>
                /\ Answer.data.success =>
                      id \in DOMAIN store.orders /\ store.orders[id].status \in Cancellable
                /\ (id \in DOMAIN store.orders /\ store.orders[id].status \notin Cancellable)
                   => /\ ~Answer.data.success
                      /\ Answer.data.error.msg # ""
                      /\ store'.orders[id].status = store.orders[id].status
                      /\ store'.items = store.items]_vars

\* a cancel of an already cancelled order and a cancel of a shipped order have been
\* refused
C10_Witness ==
    \E i \in 1..Len(outcomes[orderUpdates]) :
        /\ outcomes[orderUpdates][i].eventType = "ORDER_CANCEL_FAILED"
        /\ outcomes[orderUpdates][i].data.error.from \in {"CANCELLED", "SHIPPED"}
        /\ store.orders[5].status = outcomes[orderUpdates][i].data.error.from

\* the units of an item on the lines of an order
RECURSIVE LineSum(_, _)
LineSum(items, itemId) ==
    IF items = <<>> THEN 0
    ELSE (IF Head(items).itemId = itemId THEN Head(items).quantity ELSE 0)
         + LineSum(Tail(items), itemId)

\* C11: a cancel either sets the order's status to CANCELLED and adds every line's
\* quantity back to its item, or changes neither the status nor any item's quantity.
C11_CancelIsAtomic ==
    [][\A p \in Partitions :
          LET id == NextMessage(orderEvents, p).data.id
          IN  (Handling(p, "ORDER_CANCELLED") /\ id \in DOMAIN store.orders) =>
                \/ /\ store'.orders[id].status = "CANCELLED"
                   /\ \A i \in DOMAIN store.items :
                         store'.items[i].quantity =
                            store.items[i].quantity + LineSum(store.orders[id].items, i)
                \/ /\ store'.orders[id].status = store.orders[id].status
                   /\ store'.items = store.items]_vars

\* C12: an order that a creation persists has only lines of existing items of its
\* customer with at least the ordered quantity in stock, and the creation takes exactly
\* the ordered quantities from the items.
C12_PersistedOrderWasValidated ==
    [][\A p \in Partitions :
          Handling(p, "ORDER_CREATED") =>
            \A o \in DOMAIN store'.orders \ DOMAIN store.orders :
                LET order == store'.orders[o]
                IN  /\ \A k \in 1..Len(order.items) :
                          /\ order.items[k].itemId \in DOMAIN store.items
                          /\ store.items[order.items[k].itemId].customerId = order.customerId
                          /\ store.items[order.items[k].itemId].quantity
                                >= order.items[k].quantity
                    /\ \A i \in DOMAIN store.items :
                          store'.items[i].quantity =
                             store.items[i].quantity - LineSum(order.items, i)]_vars

\* the sum of the subtotals of an order's lines
RECURSIVE SubtotalSum(_)
SubtotalSum(items) ==
    IF items = <<>> THEN 0 ELSE Head(items).subtotal + SubtotalSum(Tail(items))

\* the banded shipping rule of the specification, in cents
BandedShipping(amount) ==
    IF amount >= 10000 THEN 0 ELSE IF amount >= 5000 THEN 500 ELSE 1000

\* C13: every stored order has shipping by the banded rule on the sum of its lines'
\* subtotals, tax of 10% of that sum, and
\* total_amount = sum of subtotals + tax + shipping - discount.
C13_TotalsAreServerComputed ==
    \A o \in DOMAIN store.orders :
        LET order == store.orders[o]
            sum == SubtotalSum(order.items)
        IN  /\ order.shippingCost = BandedShipping(sum)
            /\ order.taxAmount * 10 = sum
            /\ order.totalAmount = sum + order.taxAmount + order.shippingCost - order.discount

\* the handler creates, in this step, an order for two units of an item that has
\* price 10.00 and quantity 5
OrderOfTwo(p, itemId) ==
    /\ Handling(p, "ORDER_CREATED")
    /\ Answer.data.success
    /\ NextMessage(orderEvents, p).data.items = <<Line(itemId, 2)>>
    /\ itemId \in DOMAIN store.items
    /\ store.items[itemId].price = 1000
    /\ store.items[itemId].quantity = 5

\* C14 as stated: the order of scenario A has total 30.00 and leaves 3 units.
C14_ScenarioTotalThirty ==
    [][\A p \in Partitions, itemId \in 1..20 :
          OrderOfTwo(p, itemId) =>
            /\ store'.orders[Answer.data.data].totalAmount = 3000
            /\ store'.items[itemId].quantity = 3]_vars

\* C14 amended: the order of scenario A has total 2 * 10.00 + 2.00 + 10.00 = 32.00 and
\* leaves 3 units.
C14_ScenarioTotalThirtyTwo ==
    [][\A p \in Partitions, itemId \in 1..20 :
          OrderOfTwo(p, itemId) =>
            /\ store'.orders[Answer.data.data].totalAmount = 3200
            /\ store'.items[itemId].quantity = 3]_vars

\* the three creations of scenario A have succeeded, in their order
C14_Witness ==
    /\ \E i \in 1..Len(outcomes[customerUpdates]) :
          /\ outcomes[customerUpdates][i].eventType = "CUSTOMER_CREATED_SUCCESS"
          /\ outcomes[customerUpdates][i].data.success
    /\ \E i \in 1..Len(outcomes[itemUpdates]) :
          /\ outcomes[itemUpdates][i].eventType = "ITEM_CREATED_SUCCESS"
          /\ outcomes[itemUpdates][i].data.success
    /\ \E o \in DOMAIN store.orders :
          /\ store.orders[o].customerId = 10
          /\ store.orders[o].items = <<OrderItem(13, 2, 1000)>>
    /\ store.items[13].quantity = 3

HandlingItem(p, eventType) ==
    /\ Pending(customerItemsEvents, p)
    /\ NextMessage(customerItemsEvents, p).eventType = eventType
    /\ offset'[customerItemsEvents][p] = offset[customerItemsEvents][p] + 1

ItemAnswer == Last(outcomes[itemUpdates])'

\* the quantity the operation asks for, before any check
AskedQuantity(existing, quantity, operation) ==
    CASE operation = "add" -> existing + quantity
      [] operation = "subtract" -> existing - quantity
      [] OTHER -> quantity

QuantitiesNonNegative(S) == \A i \in DOMAIN S.items : S.items[i].quantity >= 0

\* C15: after every operation every item's stored quantity is at least zero, and a
\* quantity update or an order that asks for more units than an item has fails and
\* leaves the quantities as they were.
C15_QuantityNeverNegative ==
    [][/\ QuantitiesNonNegative(store')
       /\ \A p \in Partitions :
             LET event == NextMessage(customerItemsEvents, p)
             IN  (/\ HandlingItem(p, "ITEM_QUANTITY_UPDATED")
                  /\ event.data.id \in DOMAIN store.items
                  /\ AskedQuantity(store.items[event.data.id].quantity,
                                   event.data.quantity, event.data.operation) < 0) =>
                    ~ItemAnswer.data.success /\ store'.items = store.items
       /\ \A p \in Partitions :
             LET event == NextMessage(orderEvents, p)
             IN  (/\ Handling(p, "ORDER_CREATED")
                  /\ \E i \in DOMAIN store.items :
                        LineSum(event.data.items, i) > store.items[i].quantity) =>
                    ~Answer.data.success /\ store'.items = store.items]_vars

\* the stored value alone
StoredQuantityNonNegative == QuantitiesNonNegative(store)

\* orders alone: one that asks for more units than an item has changes no quantity
FailedOrderKeepsQuantities ==
    [][\A p \in Partitions :
          LET event == NextMessage(orderEvents, p)
          IN  (/\ Handling(p, "ORDER_CREATED")
               /\ \E i \in DOMAIN store.items :
                     LineSum(event.data.items, i) > store.items[i].quantity) =>
                 ~Answer.data.success /\ store'.items = store.items]_vars

\* the broadcaster hands out, in this step, the next outcome event of the channel
Broadcasting(channel) == consumed'[channel] = consumed[channel] + 1
Broadcast(channel) == outcomes[channel][consumed[channel] + 1]

\* the client's socket is written the event in this step
Receives(c, channel) ==
    /\ Len(sent'[c]) = Len(sent[c]) + 1
    /\ Last(sent'[c]).type = "EVENT_UPDATE"
    /\ Last(sent'[c]).channel = channel
    /\ Last(sent'[c]).event.eventId = Broadcast(channel).eventId

TenantsApart(client, event) ==
    /\ client.tenantId # UndefinedStr
    /\ event.metadata.tenantId # UndefinedStr
    /\ client.tenantId # event.metadata.tenantId

Subscribed(client, channel, event) ==
    \E i \in 1..Len(client.subscriptions) :
        /\ channel \in client.subscriptions[i].channels
        /\ \/ client.subscriptions[i].eventTypes = {}
           \/ event.eventType \in client.subscriptions[i].eventTypes

\* C16: when an outcome event is broadcast, a connection with an open socket receives it
\* if and only if one of its subscriptions names the channel and has no eventTypes or
\* names the event's type, and the tenants are not apart; a connection whose socket is
\* not open receives nothing, and no connection receives an event of another tenant.
C16_DeliveryIffSubscribed ==
    [][\A channel \in OutcomeTopics :
          Broadcasting(channel) =>
            \A c \in DOMAIN clients :
                /\ clients[c].readyState = "OPEN" =>
                      (Receives(c, channel) <=>
                          /\ Subscribed(clients[c], channel, Broadcast(channel))
                          /\ ~TenantsApart(clients[c], Broadcast(channel)))
                /\ clients[c].readyState # "OPEN" => sent'[c] = sent[c]
                /\ Receives(c, channel) => ~TenantsApart(clients[c], Broadcast(channel))]_vars

\* an event of tenant t2 was broadcast: the subscribed connection of tenant t1 did not
\* receive it, the subscribed connection without a tenant did
C16_Witness ==
    /\ consumed[customerUpdates] = 1
    /\ outcomes[customerUpdates][1].metadata.tenantId = "t2"
    /\ \E c, d \in DOMAIN clients :
          /\ clients[c].tenantId = "t1"
          /\ clients[c].readyState = "OPEN"
          /\ Subscribed(clients[c], customerUpdates, outcomes[customerUpdates][1])
          /\ sent[c] = <<>>
          /\ clients[d].tenantId = UndefinedStr
          /\ Len(sent[d]) = 1

\* the event is for the connection: subscribed, and the tenants not apart
Matching(c, channel) ==
    /\ Subscribed(clients[c], channel, Broadcast(channel))
    /\ ~TenantsApart(clients[c], Broadcast(channel))

\* the socket takes what is written to it
Writable(c) == clients[c].readyState = "OPEN" /\ ~clients[c].faulty

\* C17: when an outcome event is broadcast, a matching connection with an open socket
\* whose send throws is removed from the clients, and every matching connection with an
\* open socket that takes the event receives it and stays: the broadcast is not aborted.
C17_FailedDeliveryPrunes ==
    [][\A channel \in OutcomeTopics :
          Broadcasting(channel) =>
            \A c \in DOMAIN clients :
                (Matching(c, channel) /\ clients[c].readyState = "OPEN") =>
                    IF clients[c].faulty
                    THEN c \notin DOMAIN clients'
                    ELSE Receives(c, channel) /\ c \in DOMAIN clients']_vars

\* an event was broadcast to two subscribed connections: the first one's send threw and
\* the second one received the event
C17_Witness ==
    \E c, d \in DOMAIN sent :
        /\ c < d
        /\ c \notin DOMAIN clients
        /\ sent[c] = <<>>
        /\ d \in DOMAIN clients
        /\ Len(sent[d]) = 1

\* a matching connection whose socket is closing is passed over by the broadcast and
\* stays among the clients until its close event or the next ping interval
ClosingSocketStays ==
    [][\A channel \in OutcomeTopics :
          Broadcasting(channel) =>
            \A c \in DOMAIN clients :
                (Matching(c, channel) /\ clients[c].readyState = "CLOSING") =>
                    sent'[c] = sent[c] /\ c \in DOMAIN clients']_vars

\* the connection has shown no activity for longer than the timeout and its peer is silent
Inactive(c) ==
    /\ c \in DOMAIN clients
    /\ ~clients[c].responsive
    /\ clients[c].idle > Timeout

\* a step of the health monitor: one of its two intervals fires
Monitoring ==
    \/ sincePing = PingInterval /\ sincePing' = 0
    \/ sinceCheck = CheckInterval /\ sinceCheck' = 0

\* C18: a connection without activity for longer than the timeout is eventually removed
\* from the clients; a removed connection receives no further event; and the health
\* monitor never removes a connection whose peer answers the pings.
C18_InactiveRemovedActiveKept ==
    /\ \A c \in ClientIds : Inactive(c) ~> (c \notin DOMAIN clients)
    /\ [][\A c \in DOMAIN sent : c \notin DOMAIN clients => sent'[c] = sent[c]]_vars
    /\ [][Monitoring =>
            \A c \in DOMAIN clients :
                (clients[c].responsive /\ Writable(c)) => c \in DOMAIN clients']_vars

\* the inactivity interval has removed a silent connection while a connection that
\* answers the pings is still there after more than the timeout
C18_Witness ==
    /\ \E c \in DOMAIN sent : c \notin DOMAIN clients
    /\ \E d \in DOMAIN clients : clients[d].responsive /\ clients[d].idle = 0

\* the message at the consumer's position is handed to its handler in this step
Handed(topic, p) ==
    /\ Pending(topic, p)
    /\ NextMessage(topic, p).eventId \in DOMAIN handled'
    /\ handled'[NextMessage(topic, p).eventId] = Delivered(NextMessage(topic, p).eventId) + 1

\* C19: whenever a message is handed to its handler, whether the handler returns or
\* throws, the consumer's position moves past the message.
C19_ConsumerAdvances ==
    [][\A topic \in RequestTopics, p \in Partitions :
          Handed(topic, p) => offset'[topic][p] = offset[topic][p] + 1]_vars

\* a service call that throws a domain error is answered and the consumer moves on
DomainErrorAdvances ==
    [][\A p \in Partitions :
          (/\ Handed(customerEvents, p)
           /\ Parses(NextMessage(customerEvents, p))
           /\ customerDecision(store, NextMessage(customerEvents, p), nextUuid).error
                 # NoError
           /\ Len(outcomes'[customerUpdates]) = Len(outcomes[customerUpdates]) + 1) =>
              offset'[customerEvents][p] = offset[customerEvents][p] + 1]_vars

\* a write request is answered in this step and its event is not in the topic
PublishFailed == Len(acks') = Len(acks) + 1 /\ log' = log

\* C20: a write request whose publish fails is answered with 503.
C20_PublishFailureIs503 ==
    [][PublishFailed => Last(acks').code = 503]_vars

\* a write request whose publish fails is answered with a server error, never with 202
PublishFailureIsServerError ==
    [][PublishFailed => Last(acks').code \in 500..599]_vars

----------------------------------------------------------------------------
(* Cache *)

\* C5: a read through a cache-first endpoint that returns an entity returns the row
\* the database holds at that moment, so never a value older than a mutation the
\* processor has made.
C5_ReadNotOlderThanMutation ==
    lastRead.source \in {"cache", "database"} => lastRead.value = lastRead.stored

\* the cache key's entity type
TypeOf(key) == key[1]

\* a request of a read endpoint is answered in this step
Reads == lastRead' # lastRead

\* C21: on the cache-first read path, with the cache answering, a hit returns the
\* cached value marked cacheHit true and source 'cache' without a query of the
\* database and leaves the cache as it is; a miss on an existing entity queries the
\* database, writes the row under the entity's key with the ttl of the entity's type,
\* and returns it marked cacheHit false and source 'database'.
C21_CacheFirstRead ==
    [][(Reads /\ redis = "ready") =>
          LET r == lastRead'
          IN  /\ r.key \in DOMAIN cache =>
                    /\ r.code = 200 /\ r.cacheHit = "true" /\ r.source = "cache"
                    /\ r.value = cache[r.key].value
                    /\ ~r.queried
                    /\ cache' = cache
              /\ (r.key \notin DOMAIN cache /\ r.stored # <<>>) =>
                    /\ r.code = 200 /\ r.cacheHit = "false" /\ r.source = "database"
                    /\ r.value = r.stored
                    /\ r.queried
                    /\ r.key \in DOMAIN cache'
                    /\ cache'[r.key] = [value |-> r.stored, ttl |-> getTTL(TypeOf(r.key))]
                    /\ \A k \in DOMAIN cache : cache'[k] = cache[k]]_vars

\* a miss on order 5 has filled the cache, the order was confirmed, and a hit has
\* returned the entry
C21_Witness ==
    /\ redis = "ready"
    /\ lastRead.key = getOrderKey(5)
    /\ lastRead.cacheHit = "true"
    /\ lastRead.value # lastRead.stored
    /\ getOrderKey(5) \in DOMAIN cache

\* the request read an id that neither the cache nor the database holds
Absent == Reads /\ lastRead'.key \notin DOMAIN cache /\ lastRead'.stored = <<>>

\* C22: a by-id read of an entity that is neither in the cache nor in the database is
\* answered 404 with cacheHit false, by the customer, item and order endpoints alike,
\* and leaves the cache unchanged.
C22_AbsentIs404 ==
    [][Absent => /\ lastRead'.code = 404
                 /\ lastRead'.cacheHit = "false"
                 /\ cache' = cache]_vars

\* what holds of the code: the customer and order endpoints answer 404 with cacheHit
\* false, and no endpoint writes an entry for the absent id
AbsentCustomerOrOrderIs404 ==
    [][Absent => /\ TypeOf(lastRead'.key) \in {"customer", "order"} =>
                       lastRead'.code = 404 /\ lastRead'.cacheHit = "false"
                 /\ cache' = cache]_vars

\* C23: an error of the connection to the cache fails no request.  While the
\* connection is down a read takes the get as a miss and the set as a no-op: it
\* leaves the cache as it is, is not answered 500, and answers an existing entity with
\* 200 and the row of the database; a write is answered 202 and its delete of cache
\* entries is a no-op.
C23_CacheDownDegrades ==
    [][redis = "down" =>
          /\ Reads =>
                /\ cache' = cache
                /\ lastRead'.code # 500
                /\ lastRead'.stored # <<>> =>
                      /\ lastRead'.code = 200
                      /\ lastRead'.value = lastRead'.stored
                      /\ lastRead'.cacheHit = "false"
                      /\ lastRead'.source = "database"
          /\ acks' # acks => Last(acks').code = 202 /\ cache' = cache]_vars

\* the connection is down, the cache holds order 5 as it was before it was confirmed,
\* and a read has answered the confirmed order from the database
C23_Witness ==
    /\ redis = "down"
    /\ getOrderKey(5) \in DOMAIN cache
    /\ lastRead.key = getOrderKey(5)
    /\ lastRead.code = 200
    /\ lastRead.source = "database"
    /\ lastRead.value.status = "CONFIRMED"
    /\ cache[getOrderKey(5)].value.status = "PENDING"

\* the cache key lies under the pattern prefix*
Under(key, prefix) == Len(key) >= Len(prefix) /\ SubSeq(key, 1, Len(prefix)) = prefix

\* the rows of the table that the step has written
Mutated(table, written) == {id \in DOMAIN written : Row(table, id) # written[id]}

\* the cache holds nothing of the entity: neither its own entry, nor a list of all
\* entities of its type, nor a list of its owner's entities
Invalidated(C, key, lists, customerId) ==
    /\ key \notin DOMAIN C
    /\ \A k \in DOMAIN C :
          /\ ~Under(k, <<lists, "list">>)
          /\ ~Under(k, <<lists, "customer", ToString(customerId)>>)

\* C24: after every successful mutation of an item or an order, the cache holds no
\* entry under the entity's own key, none under the global list pattern of its type
\* and none under the list pattern of the customer that owns it.
C24_MutationInvalidates ==
    [][/\ \A id \in Mutated(store.items, store'.items) :
             Invalidated(cache', getItemKey(id), "items", store'.items[id].customerId)
       /\ \A id \in Mutated(store.orders, store'.orders) :
             Invalidated(cache', getOrderKey(id), "orders", store'.orders[id].customerId)]_vars

\* C25: the list cache keys are injective in the filters: no two list queries that
\* differ in page, limit, category, search, status or customer id are answered under
\* the same cache key, whichever filters are empty.
C25_ListKeysInjective ==
    \A key \in DOMAIN queries : Cardinality(queries[key]) <= 1

\* the service calls that write, by the table they write
CustomerMutations == {"createCustomer", "updateCustomer", "deleteCustomer"}
ItemMutations == {"createCustomerItem", "updateCustomerItem", "updateItemQuantity",
                  "deleteCustomerItem"}
OrderMutations == {"createOrder", "updateOrder", "cancelOrder", "deleteOrder"}

\* the cache entries a mutation of the entity is to invalidate or update: the entity's
\* own key and the lists of its type
EntriesOf(C, call, entity) ==
    LET lists == CASE call \in CustomerMutations -> "customers"
                   [] call \in ItemMutations -> "items"
                   [] call \in OrderMutations -> "orders"
        key == CASE call \in CustomerMutations -> getCustomerKey(entity)
                 [] call \in ItemMutations -> getItemKey(entity)
                 [] call \in OrderMutations -> getOrderKey(entity)
    IN  {k \in DOMAIN C : k = key \/ (Len(k) >= 2 /\ k[1] = lists)}

\* C26: a handler that publishes the outcome of a recognized mutation request has by
\* then, after its service call, invalidated or updated the cache entries of the
\* entity and of its lists when the call succeeded, and has made no cache operation
\* when the call threw or failed.
C26_CacheBetweenCallAndOutcome ==
    [][\A topic \in RequestTopics :
          (/\ calls'[topic] # calls[topic]
           /\ outcomes'[PairedTopic(topic)] # outcomes[PairedTopic(topic)]
           /\ Last(calls'[topic]).call
                  \in CustomerMutations \cup ItemMutations \cup OrderMutations) =>
             IF Last(outcomes'[PairedTopic(topic)]).data.success
             THEN \A k \in EntriesOf(cache, Last(calls'[topic]).call,
                                     Last(calls'[topic]).entity) :
                     k \notin DOMAIN cache' \/ cache'[k] # cache[k]
             ELSE cache' = cache]_vars

\* what holds of the code: no handler makes a cache operation, whatever its call did
HandlerLeavesCache ==
    [][(\E topic \in RequestTopics : calls'[topic] # calls[topic]) => cache' = cache]_vars

\* the handler of the topic takes, in this step, a message of the partition whose
\* eventType is no case of its switch
TakesUnknown(topic, partition) ==
    /\ offset'[topic][partition] = offset[topic][partition] + 1
    /\ Parses(NextMessage(topic, partition))
    /\ NextMessage(topic, partition).eventType \notin RecognizedTypes[topic]

\* C27: a consumed request event whose eventType the handler does not recognize
\* causes no call of a domain service, no change of the store and no outcome event.
C27_UnknownTypeDropped ==
    [][\A topic \in RequestTopics, partition \in Partitions :
          TakesUnknown(topic, partition) =>
             /\ calls' = calls
             /\ store' = store
             /\ nextUuid' = nextUuid
             /\ outcomes' = outcomes]_vars

\* a handler has taken an event of a type it does not recognize, and no outcome
\* answers it
C27_Witness ==
    \E topic \in RequestTopics, partition \in Partitions :
        \E i \in 1..offset[topic][partition] :
            LET event == log[topic][partition][i]
            IN  /\ event.eventType \notin RecognizedTypes[topic]
                /\ event.eventId \in DOMAIN handled
                /\ OutcomesFor(PairedTopic(topic), event.eventId) = <<>>

\* the two requests of Scenario D were published to the same partition and the
\* handler has taken both
BothApplied ==
    \E partition \in Partitions :
        /\ Len(log[customerItemsEvents][partition]) = 2
        /\ offset[customerItemsEvents][partition] = 2

\* C28: Scenario D.  Two quantity updates of the same item, add 5 and then subtract 3,
\* delivered to the same partition, leave the item's quantity at its initial value
\* plus 2: neither update is lost.
C28_ScenarioNetTwo ==
    \A quantity \in 0..MaxQuantity :
        store.items[3].quantity = quantity =>
            [](BothApplied => store.items[3].quantity = quantity + 2)

\* both updates went through one partition and both succeeded
C28_Witness ==
    /\ BothApplied
    /\ Len(outcomes[itemUpdates]) = 2
    /\ \A i \in 1..2 : outcomes[itemUpdates][i].data.success
    /\ store.items[3].quantity = MaxQuantity + 2

\* C29: during disconnect and shutdown no request handler is in flight while the
\* producer, the consumer or the pool of the store is closed: consumption stops first
\* and every handler that has begun completes, its outcome publish included, before
\* those connections are closed.
C29_NoHandlerInFlightAtClose ==
    (pool = "ended" \/ producer = "null" \/ consumer = "null") => inFlight = {}

\* what holds of the code: the consumer is closed with no handler in flight
ConsumerWaitsForHandler == consumer = "null" => inFlight = {}

\* C30: after EventProcessor.start() has returned, a handler is registered for each of
\* the three request topics, and a message consumed from a request topic is passed to
\* the handler registered for that topic and to the handler of no other topic.
C30_HandlerPerTopic ==
    pc = "started" =>
        \A topic \in RequestTopics : topic \in DOMAIN registered /\ registered[topic] = topic

\* what holds of the code: the messages of customer-events go to handleCustomerEvent
FirstHandlerRegistered ==
    pc = "started" => /\ customerEvents \in DOMAIN registered
                      /\ registered[customerEvents] = customerEvents

\* C31: whenever connect() has returned successfully, every required request and
\* outcome topic exists at the broker, and the topics that existed before are as they
\* were: none is created again.
C31_ConnectedHasTopics ==
    [][pc' = "connected" =>
          /\ \A topic \in RequiredTopics : topic \in DOMAIN topics'
          /\ \A topic \in DOMAIN topics : topics'[topic] = topics[topic]]_vars

\* what holds of the code: connect() leaves the existing topics as they were and
\* creates nothing but required topics
ExistingTopicsKept ==
    [][/\ \A topic \in DOMAIN topics : topic \in DOMAIN topics' /\ topics'[topic] = topics[topic]
       /\ DOMAIN topics' \subseteq DOMAIN topics \cup RequiredTopics]_vars

\* the connections that have been closed or removed
Gone == DOMAIN sent \ DOMAIN clients

\* C32: subscriptions are additive and last as long as the connection.  A step that
\* changes a connection's subscriptions without removing any (a SUBSCRIBE) appends
\* one to its earlier subscriptions, which stay in place, and leaves those of every
\* other connection as they were; a connection that has closed or failed is out of
\* the live set for good and is sent no later event.
C32_SubscriptionsAdditive ==
    [][/\ \A c \in DOMAIN clients \cap DOMAIN clients' :
             (/\ clients'[c].subscriptions # clients[c].subscriptions
              /\ Len(clients'[c].subscriptions) >= Len(clients[c].subscriptions)) =>
                /\ clients'[c].subscriptions =
                      clients[c].subscriptions \o
                         <<Last(clients'[c].subscriptions)>>
                /\ \A d \in (DOMAIN clients \cap DOMAIN clients') \ {c} :
                      clients'[d].subscriptions = clients[d].subscriptions
       /\ \A c \in Gone : c \notin DOMAIN clients' /\ sent'[c] = sent[c]]_vars

\* connection 2 holds two subscriptions and has been sent the event; connection 1,
\* which was there before it, is gone and was sent nothing
C32_Witness ==
    /\ 2 \in DOMAIN clients
    /\ Len(clients[2].subscriptions) = 2
    /\ clients[2].subscriptions[1] # clients[2].subscriptions[2]
    /\ 1 \in Gone
    /\ consumed[customerUpdates] = 1
    /\ Len(sent[2]) = 1
    /\ sent[1] = <<>>

\* the subscriptions of the client that match the event on the channel
MatchingSubscriptions(client, channel, updateData) ==
    {i \in 1..Len(client.subscriptions) :
        /\ channel \in client.subscriptions[i].channels
        /\ \/ client.subscriptions[i].eventTypes = {}
           \/ updateData.eventType \in client.subscriptions[i].eventTypes}

\* C36: for each outcome event the broadcaster consumes, a live connection is sent at
\* most one EVENT_UPDATE message, however many of its subscriptions match the event.
C36_OneMessagePerEvent ==
    [][\A channel \in OutcomeTopics :
          consumed'[channel] = consumed[channel] + 1 =>
             \A c \in DOMAIN sent :
                /\ Len(sent'[c]) <= Len(sent[c]) + 1
                /\ Len(sent'[c]) = Len(sent[c]) + 1 =>
                      Last(sent'[c]).event = outcomes[channel][consumed'[channel]]]_vars

\* a connection two of whose subscriptions match the broadcast event has been sent
\* one message
C36_Witness ==
    \E c \in DOMAIN clients :
        /\ consumed[customerUpdates] = 1
        /\ Cardinality(MatchingSubscriptions(clients[c], customerUpdates,
                                             outcomes[customerUpdates][1])) = 2
        /\ Len(sent[c]) = 1

\* the event type filters under which the subscriptions deliver the channel's events
FiltersOn(subscriptions, channel) ==
    {subscriptions[i].eventTypes :
        i \in {j \in 1..Len(subscriptions) : channel \in subscriptions[j].channels}}

\* a connection's subscriptions have lost a record in this step: an UNSUBSCRIBE
Unsubscribed(c) ==
    /\ c \in DOMAIN clients \cap DOMAIN clients'
    /\ Len(clients'[c].subscriptions) < Len(clients[c].subscriptions)

\* C37: an UNSUBSCRIBE only narrows delivery.  The requests name one channel: after
\* the step the connection is delivered nothing on that channel and, on every other
\* channel, what its subscriptions delivered before; no other connection's
\* subscriptions change.
C37_UnsubscribeOnlyNarrows ==
    [][\A c \in ClientIds :
          Unsubscribed(c) =>
             /\ \E channel \in OutcomeTopics :
                   /\ FiltersOn(clients'[c].subscriptions, channel) = {}
                   /\ \A other \in OutcomeTopics \ {channel} :
                         FiltersOn(clients'[c].subscriptions, other) =
                            FiltersOn(clients[c].subscriptions, other)
             /\ \A d \in (DOMAIN clients \cap DOMAIN clients') \ {c} :
                   clients'[d].subscriptions = clients[d].subscriptions]_vars

\* what holds of the code: the connection is delivered nothing more on the channel
\* and the other connections keep their subscriptions
UnsubscribedChannelSilent ==
    [][\A c \in ClientIds :
          Unsubscribed(c) =>
             /\ \E channel \in OutcomeTopics :
                   FiltersOn(clients'[c].subscriptions, channel) = {}
             /\ \A d \in (DOMAIN clients \cap DOMAIN clients') \ {c} :
                   clients'[d].subscriptions = clients[d].subscriptions]_vars

----------------------------------------------------------------------------
(* Order updates *)

\* the fields of an order an update request may name
NamedFields == {"status", "deliveryDate", "notes", "paymentStatus", "shippingAddress", "priority"}

\* the handler of order-events takes an update request of the partition in this step
\* and answers it with a success outcome
UpdateSucceeds(p) ==
    /\ Handling(p, "ORDER_UPDATED")
    /\ Answer.data.originalEvent.eventId = NextMessage(orderEvents, p).eventId
    /\ Answer.data.success

\* C33: a successful order update changes only the fields named in the request among
\* status, delivery date, notes, payment status, shipping address and priority; the
\* order's lines with their price and quantity snapshots, its total, tax, shipping
\* cost and discount, every other order, every customer and every item (its stock
\* quantity with it) are as before.
C33_UpdateChangesNamedFieldsOnly ==
    [][\A p \in Partitions :
          UpdateSucceeds(p) =>
             LET request == NextMessage(orderEvents, p).data
                 id == request.id
             IN  /\ store'.items = store.items
                 /\ store'.customers = store.customers
                 /\ DOMAIN store'.orders = DOMAIN store.orders
                 /\ \A o \in DOMAIN store.orders \ {id} : store'.orders[o] = store.orders[o]
                 /\ DOMAIN store'.orders[id] = DOMAIN store.orders[id]
                 /\ \A f \in DOMAIN store.orders[id] :
                        store'.orders[id][f] # store.orders[id][f] =>
                            f \in NamedFields \cap DOMAIN request]_vars

\* an update to CANCELLED has succeeded on an order whose line's quantity the item
\* has not got back, and another update has changed the notes of an order
C33_Witness ==
    /\ \E o \in DOMAIN store.orders :
           /\ store.orders[o].status = "CANCELLED"
           /\ \E i \in 1..Len(calls[orderEvents]) :
                  /\ calls[orderEvents][i].call = "updateOrder"
                  /\ calls[orderEvents][i].entity = o
           /\ \A i \in 1..Len(calls[orderEvents]) : calls[orderEvents][i].call # "cancelOrder"
           /\ store.items[3].quantity = 2
    /\ \E j \in 1..Len(outcomes[orderUpdates]) :
           /\ outcomes[orderUpdates][j].eventType = "ORDER_UPDATED_SUCCESS"
           /\ outcomes[orderUpdates][j].data.success

----------------------------------------------------------------------------
(* Cancelled orders *)

\* the step stores status CANCELLED on the order
BecomesCancelled(o) ==
    /\ o \in DOMAIN store.orders /\ o \in DOMAIN store'.orders
    /\ store.orders[o].status # "CANCELLED"
    /\ store'.orders[o].status = "CANCELLED"

\* every item has got back what the lines of the order hold of it, once
GivenBack(o) ==
    \A i \in DOMAIN store.items :
        store'.items[i].quantity = store.items[i].quantity + LineSum(store.orders[o].items, i)

\* C35: when an order's stored status becomes CANCELLED, by a cancel request or by an
\* update request with status CANCELLED, each of its line quantities is added back to
\* the owning item exactly once.
C35_CancelledGaveBack ==
    [][\A o \in DOMAIN store.orders : BecomesCancelled(o) => GivenBack(o)]_vars

\* what holds of the code: the order a cancel request cancels gives its lines back
CancelRequestGivesBack ==
    [][\A p \in Partitions, o \in DOMAIN store.orders :
          (Handling(p, "ORDER_CANCELLED") /\ BecomesCancelled(o)) => GivenBack(o)]_vars

----------------------------------------------------------------------------
(* Outcome events *)

\* the outcome types that tell of a failure and of a missing entity
FailedTypes ==
    {"CUSTOMER_CREATED_FAILED", "CUSTOMER_UPDATED_FAILED", "CUSTOMER_DELETED_FAILED",
     "ITEM_CREATED_FAILED", "ITEM_UPDATED_FAILED", "ITEM_DELETED_FAILED",
     "ITEM_QUANTITY_UPDATED_FAILED", "ORDER_CREATED_FAILED", "ORDER_UPDATED_FAILED",
     "ORDER_CANCEL_FAILED", "ORDER_DELETE_FAILED"}

NotFoundTypes == {"CUSTOMER_NOT_FOUND", "ITEM_NOT_FOUND", "ORDER_NOT_FOUND"}

\* the failure types that name the entity and the operation of a request type
FailureOf(eventType) ==
    CASE eventType = "CUSTOMER_CREATED" -> {"CUSTOMER_CREATED_FAILED"}
      [] eventType = "CUSTOMER_UPDATED" -> {"CUSTOMER_UPDATED_FAILED"}
      [] eventType = "CUSTOMER_DELETED" -> {"CUSTOMER_DELETED_FAILED"}
      [] eventType = "CUSTOMER_REQUESTED" -> {"CUSTOMER_NOT_FOUND"}
      [] eventType = "ITEM_CREATED" -> {"ITEM_CREATED_FAILED"}
      [] eventType = "ITEM_UPDATED" -> {"ITEM_UPDATED_FAILED"}
      [] eventType = "ITEM_DELETED" -> {"ITEM_DELETED_FAILED"}
      [] eventType = "ITEM_REQUESTED" -> {"ITEM_NOT_FOUND"}
      [] eventType = "ITEM_QUANTITY_UPDATED" -> {"ITEM_QUANTITY_UPDATED_FAILED"}
      [] eventType = "ORDER_CREATED" -> {"ORDER_CREATED_FAILED"}
      [] eventType = "ORDER_UPDATED" -> {"ORDER_UPDATED_FAILED"}
      [] eventType = "ORDER_CANCELLED" -> {"ORDER_CANCEL_FAILED"}
      [] eventType = "ORDER_DELETED" -> {"ORDER_DELETE_FAILED"}
      [] eventType = "ORDER_REQUESTED" -> {"ORDER_NOT_FOUND"}
      [] OTHER -> {}

AllOutcomes == UNION {{outcomes[t][i] : i \in 1..Len(outcomes[t])} : t \in OutcomeTopics}

\* success is false exactly when an error message is present
ErrorIffFailure == \A o \in AllOutcomes : (~o.data.success) <=> (o.data.error.msg # "")

\* a success outcome has no *_FAILED and no *_NOT_FOUND type
SuccessTypeSucceeds ==
    \A o \in AllOutcomes : o.data.success => o.eventType \notin FailedTypes \cup NotFoundTypes

\* a failure outcome's type names the entity and the operation of its request
FailureTypeOfRequest ==
    \A o \in AllOutcomes :
        ~o.data.success => o.eventType \in FailureOf(o.data.originalEvent.eventType)

\* C38: every outcome event the processor publishes is consistent in itself: success
\* is false exactly when an error message is present, a success outcome never has a
\* *_FAILED or *_NOT_FOUND type, and a failure outcome's type names the entity and the
\* operation of the request that caused it.
C38_OutcomeConsistent == ErrorIffFailure /\ SuccessTypeSucceeds /\ FailureTypeOfRequest

\* what holds of the code: a failure outcome's type is a failure type of the request's
\* entity
FailureTypeOfEntity ==
    \A t \in OutcomeTopics : \A i \in 1..Len(outcomes[t]) :
        ~outcomes[t][i].data.success =>
            /\ outcomes[t][i].eventType \in FailedTypes \cup NotFoundTypes
            /\ outcomes[t][i].eventType \in
                  CASE t = customerUpdates ->
                         {"CUSTOMER_CREATED_FAILED", "CUSTOMER_UPDATED_FAILED",
                          "CUSTOMER_DELETED_FAILED", "CUSTOMER_NOT_FOUND"}
                    [] t = itemUpdates ->
                         {"ITEM_CREATED_FAILED", "ITEM_UPDATED_FAILED", "ITEM_DELETED_FAILED",
                          "ITEM_QUANTITY_UPDATED_FAILED", "ITEM_NOT_FOUND"}
                    [] OTHER ->
                         {"ORDER_CREATED_FAILED", "ORDER_UPDATED_FAILED", "ORDER_CANCEL_FAILED",
                          "ORDER_DELETE_FAILED", "ORDER_NOT_FOUND"}

----------------------------------------------------------------------------
(* Acknowledged ids *)

\* the table a create request writes to
TableOf(eventType) ==
    CASE eventType = "CUSTOMER_CREATED" -> store.customers
      [] eventType = "ITEM_CREATED" -> store.items
      [] OTHER -> store.orders

\* the id of the 202 body of every create request of the types that has succeeded is
\* the id the service returned, and a row of the entity's table has it
AckIdPersisted(types) ==
    \A i \in 1..Len(acks) :
        LET m == Acknowledged(acks[i])
            answers == OutcomesFor(PairedTopic(m.topic), acks[i].eventId)
        IN  (acks[i].code = 202 /\ m.event.eventType \in types) =>
                \A k \in 1..Len(answers) :
                    answers[k].data.success =>
                        /\ answers[k].data.data = acks[i].id
                        /\ acks[i].id \in DOMAIN TableOf(m.event.eventType)

\* C39: the entity id of the 202 acknowledgment of a create request is the id under
\* which the entity is persisted when the create succeeds, for customers, items and
\* orders.
C39_AckIdIsPersistedId == AckIdPersisted(CreateTypes)

\* what holds of the code: customers and items are persisted under the acknowledged id
CustomerAndItemAckIds == AckIdPersisted({"CUSTOMER_CREATED", "ITEM_CREATED"})

----------------------------------------------------------------------------
(* Deleted entities *)

DeleteTypes == {"CUSTOMER_DELETED", "ITEM_DELETED", "ORDER_DELETED"}
ByIdTypes == {"CUSTOMER_REQUESTED", "ITEM_REQUESTED", "ORDER_REQUESTED"}
DeleteSucceeded == {"CUSTOMER_DELETED_SUCCESS", "ITEM_DELETED_SUCCESS", "ORDER_DELETED_SUCCESS"}
DeleteFailed == {"CUSTOMER_DELETED_FAILED", "ITEM_DELETED_FAILED", "ORDER_DELETE_FAILED"}

\* the request event an outcome answers, and the entity it is about
Asking(o) == RequestOf(o).event

EntityOf(event) ==
    CASE event.eventType = "ITEM_REQUESTED" -> event.data.itemId
      [] event.eventType = "ORDER_REQUESTED" -> event.data.orderId
      [] OTHER -> event.data.id

\* on the outcome topics T: an outcome that follows the success outcome of a delete
\* request for the same entity is NOT_FOUND when it answers a by-id request and the
\* delete-failed outcome when it answers a delete request
AfterDelete(T) ==
    \A t \in T : \A i, j \in 1..Len(outcomes[t]) :
        (/\ i < j
         /\ outcomes[t][i].eventType \in DeleteSucceeded
         /\ EntityOf(Asking(outcomes[t][i])) = EntityOf(Asking(outcomes[t][j])))
        => /\ Asking(outcomes[t][j]).eventType \in ByIdTypes =>
                 outcomes[t][j].eventType \in NotFoundTypes
           /\ Asking(outcomes[t][j]).eventType \in DeleteTypes =>
                 outcomes[t][j].eventType \in DeleteFailed

\* C40: after a delete request for an entity has produced a success outcome, a later
\* by-id request for the entity yields a NOT_FOUND outcome and a second delete request
\* the delete-failed outcome, for customers, items and orders alike.
C40_DeletedStaysDeleted == AfterDelete(OutcomeTopics)

\* what holds of the code: the same of customers and orders
DeletedCustomerOrOrderStaysDeleted == AfterDelete({customerUpdates, orderUpdates})

----------------------------------------------------------------------------
(* Overlapping stock adjustments *)

\* what a successful request adds to the quantity of the item
Adjustment(o, itemId) ==
    LET request == RequestOf(o).event
    IN  CASE ~o.data.success -> 0
          [] o.eventType = "ITEM_QUANTITY_UPDATED_SUCCESS" /\ request.data.id = itemId ->
               IF request.data.operation = "add" THEN request.data.quantity
               ELSE 0 - request.data.quantity
          [] o.eventType = "ORDER_CREATED_SUCCESS" -> 0 - LineSum(request.data.items, itemId)
          [] o.eventType = "ORDER_CANCELLED_SUCCESS" ->
               LineSum(Seed("PENDING").orders[request.data.id].items, itemId)
          [] OTHER -> 0

RECURSIVE Adjustments(_, _)
Adjustments(answers, itemId) ==
    IF answers = <<>> THEN 0
    ELSE Adjustment(Head(answers), itemId) + Adjustments(Tail(answers), itemId)

\* C34: when a stock adjustment of the order handler (an order's creation or
\* cancellation) and a quantity update of the item handler for the same item overlap,
\* the item's final quantity reflects both: once every request is answered, item 3
\* has its two units and what each successful request added or took.
C34_NoLostUpdate ==
    (Quiescent /\ existingItem = <<>>) =>
        store.items[3].quantity =
            2 + Adjustments(outcomes[itemUpdates], 3) + Adjustments(outcomes[orderUpdates], 3)

\* the handlers of the two topics have both read before either has written
Overlapping == Cardinality(DOMAIN existingItem) = 2

====
